---- MODULE Spec2Model ----
(***************************************************************************)
(* Model of the upload server (src/server.js): the batch upload handler    *)
(* POST /api/upload with its per-file name check, one-shot creation and    *)
(* resumable chunked transfer, and the folder path resolver behind         *)
(* POST /api/create-folder-path.                                           *)
(*                                                                         *)
(* The remote store (Google Drive) is the environment: every remote call   *)
(* is one atomic round trip whose answer is chosen nondeterministically.   *)
(* A handler is cut at its await points: the position variable names the   *)
(* remote call the handler issues next, and an action issues that call,    *)
(* takes the answer and runs the synchronous code up to the next call.     *)
(*                                                                         *)
(* Strings that the code takes apart (file and folder names) are sequences *)
(* of one-character strings; identifiers are plain strings.                *)
(***************************************************************************)
EXTENDS Integers, Sequences, FiniteSets, TLC

VARIABLES
    drive,          \* remote store: set of entries [id, name, parent, isFolder]
    nextId,         \* remote store: number of the next identifier it hands out
    sessions,       \* remote store: resumable sessions opened, by session number
    req,            \* the upload request being handled (req.body.folderId, req.files)
    upc,            \* position of the upload handler: the remote call it issues next
    idx,            \* index in req.files of the file being uploaded
    results,        \* the handler's results array
    finalFileName,  \* uploadFileToDrive: the name getUniqueFileName returned
    counter,        \* getUniqueFileName: the counter of the candidate name
    uploadUrl,      \* resumableUpload: the session endpoint
    uploadedBytes,  \* resumableUpload: bytes acknowledged so far
    calls,          \* the remote calls issued for the file uploaded last (calls.file)
    events,         \* per finished file: did a name check fail, and how the upload ended
    response,       \* the HTTP response of the upload handler
    ulog,           \* the upload requests answered before the current one, oldest first
    rreq,           \* the folder path request being handled
    rpc,            \* position of getOrCreateFolderPath: the remote call it issues next
    folderPath,     \* getOrCreateFolderPath: the segments to resolve
    ridx,           \* getOrCreateFolderPath: index of the segment being resolved
    currentFolderId,\* getOrCreateFolderPath: the folder reached so far
    rcalls,         \* the remote calls issued by the resolve in progress
    failures,       \* number of remote failures met by the folder path requests so far
    rlog,           \* the finished folder path requests, oldest first
    flows,          \* folder path requests handled concurrently, one record per request
    uploads,        \* upload requests handled concurrently, one record of locals per request
    old             \* the older upload handler: its request and one record per file

storeVars  == <<drive, nextId, sessions>>
uploadVars == <<req, upc, idx, results, finalFileName, counter, uploadUrl,
                uploadedBytes, calls, events, response, ulog>>
resolveVars == <<rreq, rpc, folderPath, ridx, currentFolderId, rcalls, failures, rlog, flows>>
concurrentVars == <<uploads, old>>
vars == <<drive, nextId, sessions, req, upc, idx, results, finalFileName, counter,
          uploadUrl, uploadedBytes, calls, events, response, ulog,
          rreq, rpc, folderPath, ridx,
          currentFolderId, rcalls, failures, rlog, flows, uploads, old>>

----------------------------------------------------------------------------
(* Configuration: CONFIG of src/server.js.                                  *)
(* Sizes are counted in units of 1024 bytes (TLC's integers are 32 bits    *)
(* wide and 5 GiB in bytes does not fit): every size of the code is a      *)
(* whole number of units, and the model's files are too, so every          *)
(* comparison and every window of the code is kept exactly.                *)

MAIN_FOLDER_ID == "1oN7WEEVfUnni6g20nyViajXEtGRW6Fp7"
MAX_FILE_SIZE == 2 * 1024 * 1024
MAX_TOTAL_SIZE == 5 * 1024 * 1024
MAX_FILES == 500
CHUNK_SIZE == 8 * 1024
\* uploadFileToDrive: files larger than this use the resumable upload
SIMPLE_UPLOAD_LIMIT == 5 * 1024
\* the do-while left one round later
CounterLimitOneMore == 100 + 1
\* getUniqueFileName: the do-while runs while counter < 100
COUNTER_LIMIT == 100

----------------------------------------------------------------------------
(* Bounds of the model *)

\* longest batch of freely combined files
MaxFiles == 2
\* number of folder path requests handled one after the other
MaxResolves == 2
\* number of remote calls of the folder path requests that fail
MaxFailures == 1
\* folder path requests handled at the same time
MaxFlows == 2

----------------------------------------------------------------------------
(* Helpers on sequences *)

Min(a, b) == IF a < b THEN a ELSE b

RECURSIVE SumSizes(_)
\* req.files.reduce((sum, file) => sum + file.size, 0)
SumSizes(files) ==
    IF files = <<>> THEN 0 ELSE Head(files).size + SumSizes(Tail(files))

RECURSIVE SeqsUpTo(_, _)
SeqsUpTo(S, n) ==
    IF n = 0 THEN {<<>>}
    ELSE LET shorter == SeqsUpTo(S, n - 1)
         IN  shorter \cup {Append(s, x) : s \in {t \in shorter : Len(t) = n - 1}, x \in S}

DigitChar == <<"0", "1", "2", "3", "4", "5", "6", "7", "8", "9">>

RECURSIVE Digits(_)
\* the decimal digits of a number in a template literal, `${counter}`
Digits(n) ==
    IF n < 10 THEN <<DigitChar[n + 1]>>
    ELSE Digits(n \div 10) \o <<DigitChar[(n % 10) + 1]>>

\* filename.lastIndexOf('.'), counted from 1; 0 when there is none
LastDotIndex(filename) ==
    LET dots == {i \in 1..Len(filename) : filename[i] = "."}
    IN  IF dots = {} THEN 0 ELSE CHOOSE i \in dots : \A j \in dots : j <= i

\* the name split at its first "." instead of its last
parseFileNameFirstDot(filename) ==
    LET dots == {i \in 1..Len(filename) : filename[i] = "."}
        firstDotIndex == IF dots = {} THEN 0 ELSE CHOOSE i \in dots : \A j \in dots : i <= j
    IN  IF firstDotIndex = 0
        THEN [name |-> filename, ext |-> <<>>]
        ELSE [name |-> SubSeq(filename, 1, firstDotIndex - 1),
              ext  |-> SubSeq(filename, firstDotIndex, Len(filename))]

\* parseFileName, lines 334-343
parseFileName(filename) ==
    LET lastDotIndex == LastDotIndex(filename)
    IN  IF lastDotIndex = 0
        THEN [name |-> filename, ext |-> <<>>]
        ELSE [name |-> SubSeq(filename, 1, lastDotIndex - 1),
              ext  |-> SubSeq(filename, lastDotIndex, Len(filename))]

\* `${name}(${counter})${ext}`
NumberedName(originalName, k) ==
    LET p == parseFileName(originalName)
    IN  p.name \o <<"(">> \o Digits(k) \o <<")">> \o p.ext

\* `${name}_${timestamp}${ext}`
TimestampName(originalName, timestamp) ==
    LET p == parseFileName(originalName)
    IN  p.name \o <<"_">> \o Digits(timestamp) \o p.ext

----------------------------------------------------------------------------
(* Inputs of the model *)

N1 == <<"r", ".", "p">>
N2 == <<"n">>
N3 == <<"a", ".", "b", ".", "c">>
TargetFolder == "folderT"

\* the files a batch is freely combined from: at the simple-upload limit,
\* just above it, a whole number of chunks, and one byte more
FileChoices ==
    { [originalname |-> N1, size |-> SIMPLE_UPLOAD_LIMIT],
      [originalname |-> N1, size |-> SIMPLE_UPLOAD_LIMIT + 1],
      [originalname |-> N2, size |-> 2 * CHUNK_SIZE],
      [originalname |-> N2, size |-> 2 * CHUNK_SIZE + 1] }

File(n, s) == [originalname |-> n, size |-> s]

\* batches around the aggregate limit, built from files multer lets through
BigBatches ==
    { <<File(N1, MAX_FILE_SIZE), File(N2, MAX_FILE_SIZE), File(N2, MAX_FILE_SIZE \div 2)>>,
      <<File(N1, MAX_FILE_SIZE), File(N2, MAX_FILE_SIZE), File(N2, MAX_FILE_SIZE \div 2 + 1)>>,
      <<File(N1, MAX_FILE_SIZE), File(N2, MAX_FILE_SIZE), File(N2, MAX_FILE_SIZE)>> }

\* batches of three files: a one-shot file, a chunked file, a one-shot file;
\* and three chunked files
TripleBatches ==
    { <<File(N1, SIMPLE_UPLOAD_LIMIT), File(N2, 2 * CHUNK_SIZE + 1), File(N1, SIMPLE_UPLOAD_LIMIT)>>,
      <<File(N1, SIMPLE_UPLOAD_LIMIT + 1), File(N2, 2 * CHUNK_SIZE), File(N2, 2 * CHUNK_SIZE + 1)>> }

Batches == SeqsUpTo(FileChoices, MaxFiles) \cup TripleBatches

\* the batches around the aggregate limit, and the batches of at most one file
LimitBatches == BigBatches \cup SeqsUpTo(FileChoices, 1)

\* req.body.folderId: missing, or the folder the batch targets
FolderIds == {"", TargetFolder}

\* answers of the remote store
InitStatuses == {200, 403}
ChunkStatuses == {308, 200, 201, 500}
\* Date.now(), cut to a number TLC can hold
Timestamps == {1700000000}

FileEntry(id, name, parent) ==
    [id |-> id, name |-> name, parent |-> parent, isFolder |-> FALSE]

FolderEntry(id, name, parent) ==
    [id |-> id, name |-> name, parent |-> parent, isFolder |-> TRUE]

\* what the target folder holds before the batch arrives
UploadDrives ==
    { {},
      {FileEntry("x1", N1, TargetFolder)},
      {FileEntry("x1", N1, TargetFolder), FileEntry("x2", NumberedName(N1, 1), TargetFolder)} }

\* a target folder where `name` and its numbered variants 1..k are taken
Colliding(name, k) ==
    { FileEntry("x" \o ToString(j),
                IF j = 0 THEN name ELSE NumberedName(name, j),
                TargetFolder) : j \in 0..k }

\* target folders for the name check: free, taken up to one and two digits,
\* taken up to the last counter but one, taken throughout (with and without
\* the time-stamped name), taken with a gap, and names with two dots or none
NameDrives ==
    { {} }
    \cup { Colliding(N1, k) : k \in {0, 1, 9, 10, COUNTER_LIMIT - 2, COUNTER_LIMIT - 1} }
    \cup { Colliding(N1, COUNTER_LIMIT - 1)
             \cup {FileEntry("xt", TimestampName(N1, t), TargetFolder)} : t \in Timestamps }
    \cup { (Colliding(N1, 2) \ Colliding(N1, 1)) \cup Colliding(N1, 0) }
    \cup { Colliding(N3, 0), Colliding(N3, 1), Colliding(N2, 1) }

\* the batches of the name check: a name with one dot, with two, with none
NameBatches ==
    { <<File(N1, 1)>>, <<File(N3, 1)>>, <<File(N2, CHUNK_SIZE + 1)>>,
      <<File(N1, 1), File(N1, 1)>> }

----------------------------------------------------------------------------
(* The remote store *)

\* the identifier the store gives the next entry it creates
NewId == "id" \o ToString(nextId)

\* the name looked up in the root folder whatever the target folder is
FilesNamedUnderRoot(name, folderId) ==
    {e \in drive : e.name = name /\ e.parent = MAIN_FOLDER_ID}

\* the name looked up among the entries the folder held when the batch
\* arrived, blind to what the batch has stored since
FilesNamedAtArrival(name, folderId) ==
    {e \in drive \cap UNION UploadDrives : e.name = name /\ e.parent = folderId}

\* files.list with q: name='...' and '...' in parents and trashed=false
FilesNamed(name, folderId) ==
    {e \in drive : e.name = name /\ e.parent = folderId}

\* the folder looked up under the root whatever the current parent is
FoldersNamedUnderRoot(name, parentId) ==
    {e \in drive : e.name = name /\ e.parent = MAIN_FOLDER_ID /\ e.isFolder}

\* files.list with the additional mimeType='application/vnd.google-apps.folder'
FoldersNamed(name, parentId) ==
    {e \in drive : e.name = name /\ e.parent = parentId /\ e.isFolder}

----------------------------------------------------------------------------
(* POST /api/create-folder-path *)

Space == " "
LowerCase == <<"a", "b", "c", "d", "e", "f", "g", "h", "i", "j", "k", "l", "m",
               "n", "o", "p", "q", "r", "s", "t", "u", "v", "w", "x", "y", "z">>
UpperCase == <<"A", "B", "C", "D", "E", "F", "G", "H", "I", "J", "K", "L", "M",
               "N", "O", "P", "Q", "R", "S", "T", "U", "V", "W", "X", "Y", "Z">>

\* c.toUpperCase() of one character
toUpperCase(c) ==
    IF \E i \in 1..Len(LowerCase) : LowerCase[i] = c
    THEN UpperCase[CHOOSE i \in 1..Len(LowerCase) : LowerCase[i] = c]
    ELSE c

RECURSIVE TrimStart(_)
TrimStart(str) ==
    IF str # <<>> /\ Head(str) = Space THEN TrimStart(Tail(str)) ELSE str

RECURSIVE TrimEnd(_)
TrimEnd(str) ==
    IF str # <<>> /\ str[Len(str)] = Space THEN TrimEnd(SubSeq(str, 1, Len(str) - 1)) ELSE str

\* str.trim()
trim(str) == TrimEnd(TrimStart(str))

PlatformOf == <<"o", "f">>
PlatformIg == <<"i", "g">>
SegOF == <<"O", "F">>
Scripts == <<"S", "c", "r", "i", "p", "t", "s">>
Stories == <<"S", "t", "o", "r", "i", "e", "s">>
FeedPosts == <<"F", "e", "e", "d", " ", "P", "o", "s", "t", "s">>
NotUploaded == <<"N", "o", "t", " ", "U", "p", "l", "o", "a", "d", "e", "d">>
ModelA == <<"A">>
TitleT == <<"T">>

PathRequest(modelName, platform, category, scriptTitle) ==
    [modelName |-> modelName, platform |-> platform, category |-> category,
     scriptTitle |-> scriptTitle]

\* the request bodies of the model; <<>> is a missing or empty field
PathRequests ==
    { PathRequest(ModelA, PlatformOf, Stories, <<>>),
      PathRequest(<<Space>> \o ModelA, PlatformOf, Stories \o <<Space>>, <<>>),
      PathRequest(ModelA, PlatformIg, Scripts, TitleT),
      PathRequest(ModelA, PlatformIg, Scripts, <<>>),
      PathRequest(ModelA, PlatformOf, Scripts, <<Space>> \o TitleT),
      PathRequest(<<>>, PlatformOf, FeedPosts, <<>>) }

\* two request bodies of one path, and a store that has the path and a file
\* in its last folder
IdemPathRequests ==
    { PathRequest(ModelA, PlatformOf, Stories, <<>>),
      PathRequest(<<Space>> \o ModelA, PlatformOf, Stories \o <<Space>>, <<>>) }

IdemDrives ==
    { {},
      { FolderEntry("x1", ModelA, MAIN_FOLDER_ID), FolderEntry("x2", SegOF, "x1"),
        FolderEntry("x3", Stories, "x2"), FolderEntry("x4", NotUploaded, "x3"),
        FileEntry("x5", N1, "x4") } }

\* one name, uploaded in one request or in chunks
IdemBatches == { <<File(N1, 1)>>, <<File(N1, CHUNK_SIZE + 1)>> }

\* what the store holds before the first folder path request
ResolveDrives ==
    { {},
      {FolderEntry("x1", ModelA, MAIN_FOLDER_ID)},
      {FolderEntry("x1", ModelA, MAIN_FOLDER_ID), FolderEntry("x2", SegOF, "x1")},
      {FolderEntry("x1", ModelA, MAIN_FOLDER_ID), FolderEntry("x2", ModelA, MAIN_FOLDER_ID)} }

NoPathRequest == PathRequest(<<>>, <<>>, <<>>, <<>>)
NoResolveCalls == [start |-> {}, finds |-> 0, findFailed |-> <<>>, found |-> <<>>,
                   creates |-> <<>>, created |-> <<>>]

\* getOrCreateFolderPath lines 185-201: the segments of the path
BuildFolderPath(modelName, platform, category, scriptTitle) ==
    <<modelName,
      IF platform = PlatformOf THEN SegOF
      ELSE <<toUpperCase(Head(platform))>> \o Tail(platform),
      category>>
    \o (IF category = Scripts /\ scriptTitle # <<>> THEN <<scriptTitle>> ELSE <<>>)
    \o (IF platform = PlatformOf /\ (category = FeedPosts \/ category = Stories)
        THEN <<NotUploaded>> ELSE <<>>)

\* the handler answers (line 107 or line 110) and is ready for the next request
ResolveDone(ok, folderId, log) ==
    /\ rlog' = Append(rlog, [req |-> rreq, path |-> folderPath, ok |-> ok,
                             folderId |-> folderId, calls |-> log])
    /\ rpc' = "idle"
    /\ folderPath' = <<>>
    /\ ridx' = 0
    /\ currentFolderId' = ""
    /\ rcalls' = NoResolveCalls
    /\ UNCHANGED rreq

\* the for loop of line 206 descended into `folderId`: next segment, or return
Descend(folderId, log) ==
    IF ridx < Len(folderPath)
    THEN /\ ridx' = ridx + 1
         /\ currentFolderId' = folderId
         /\ rpc' = "find"
         /\ rcalls' = log
         /\ UNCHANGED <<rreq, folderPath, rlog>>
    ELSE ResolveDone(TRUE, folderId, log)

\* lines 89-105 and 184-206: validation, the path, and the first lookup is next
CreateFolderPathOf(requests) ==
    /\ rpc = "idle"
    /\ Len(rlog) < MaxResolves
    /\ \E body \in requests :
        /\ rreq' = body
        /\ IF body.modelName = <<>> \/ body.platform = <<>> \/ body.category = <<>>
           THEN /\ rlog' = Append(rlog, [req |-> body, path |-> <<>>, ok |-> FALSE,
                                         folderId |-> "", calls |-> NoResolveCalls])
                /\ UNCHANGED <<rpc, folderPath, ridx, currentFolderId, rcalls>>
           ELSE /\ folderPath' = BuildFolderPath(trim(body.modelName), body.platform,
                                                 trim(body.category),
                                                 IF body.scriptTitle # <<>>
                                                 THEN trim(body.scriptTitle) ELSE <<>>)
                /\ ridx' = 1
                /\ currentFolderId' = MAIN_FOLDER_ID
                /\ rpc' = "find"
                /\ rcalls' = [NoResolveCalls EXCEPT !.start = drive]
                /\ UNCHANGED rlog
    /\ UNCHANGED failures
    /\ UNCHANGED storeVars
    /\ UNCHANGED flows
    /\ UNCHANGED uploadVars
    /\ UNCHANGED concurrentVars

CreateFolderPath == CreateFolderPathOf(PathRequests)

\* findFolder lines 224-236 and lines 208-213: a failed lookup is answered
\* null, like a lookup that found nothing
findFolder ==
    /\ rpc = "find"
    /\ LET folderName == folderPath[ridx]
           log == [rcalls EXCEPT !.finds = @ + 1]
       IN  \/ /\ failures < MaxFailures
              /\ failures' = failures + 1
              /\ rpc' = "create"
              /\ rcalls' = [log EXCEPT !.findFailed = Append(@, ridx)]
              /\ UNCHANGED <<rreq, folderPath, ridx, currentFolderId, rlog>>
           \/ /\ UNCHANGED failures
              /\ IF FoldersNamed(folderName, currentFolderId) = {}
                 THEN /\ rpc' = "create"
                      /\ rcalls' = log
                      /\ UNCHANGED <<rreq, folderPath, ridx, currentFolderId, rlog>>
                 ELSE \E existingFolder \in FoldersNamed(folderName, currentFolderId) :
                          Descend(existingFolder.id,
                                  [log EXCEPT !.found = Append(@, existingFolder.id)])
    /\ UNCHANGED storeVars
    /\ UNCHANGED flows
    /\ UNCHANGED uploadVars
    /\ UNCHANGED concurrentVars

\* the folders the request created are removed when it fails
StoreRolledBack(log) ==
    drive \ {log.created[i] : i \in 1..Len(log.created)}

\* lines 108-111: the catch of the handler answers 500 and issues no call
StoreAfterFailedCreate(log) == drive

\* createFolder lines 239-255 and lines 214-216; a failure ends the handler
\* in the catch of line 108
createFolder ==
    /\ rpc = "create"
    /\ LET folderName == folderPath[ridx]
           log == [rcalls EXCEPT !.creates = Append(@, ridx)]
       IN  \/ /\ failures < MaxFailures
              /\ failures' = failures + 1
              /\ drive' = StoreAfterFailedCreate(log)
              /\ UNCHANGED nextId
              /\ ResolveDone(FALSE, "", log)
           \/ /\ UNCHANGED failures
              /\ drive' = drive \cup {FolderEntry(NewId, folderName, currentFolderId)}
              /\ nextId' = nextId + 1
              /\ Descend(NewId, [log EXCEPT !.created =
                                    Append(@, FolderEntry(NewId, folderName, currentFolderId))])
    /\ UNCHANGED sessions
    /\ UNCHANGED flows
    /\ UNCHANGED uploadVars
    /\ UNCHANGED concurrentVars

----------------------------------------------------------------------------
(* POST /api/create-folder-path, several requests in flight.                 *)
(* Each request runs the handler on its own locals; the handlers share the   *)
(* remote store only. A handler's record in `flows` holds its locals.        *)

\* two request bodies of one path
RacePathRequests ==
    { PathRequest(ModelA, PlatformIg, Stories, <<>>),
      PathRequest(ModelA \o <<Space>>, PlatformIg, Stories, <<>>) }

\* the store before the requests: empty, or with the first segment's folder
RaceDrives == { {}, {FolderEntry("x1", ModelA, MAIN_FOLDER_ID)} }

\* lines 89-105 and 184-206 for a request that arrives while others are in flight
CreateFolderPathConcurrent ==
    /\ Len(flows) < MaxFlows
    /\ \E body \in RacePathRequests :
        flows' = Append(flows,
            IF body.modelName = <<>> \/ body.platform = <<>> \/ body.category = <<>>
            THEN [pc |-> "rejected", path |-> <<>>, idx |-> 0,
                  cur |-> "", created |-> <<>>, folderId |-> ""]
            ELSE [pc |-> "find",
                  path |-> BuildFolderPath(trim(body.modelName), body.platform,
                                           trim(body.category),
                                           IF body.scriptTitle # <<>>
                                           THEN trim(body.scriptTitle) ELSE <<>>),
                  idx |-> 1, cur |-> MAIN_FOLDER_ID,
                  created |-> <<>>, folderId |-> ""])
    /\ UNCHANGED <<rreq, rpc, folderPath, ridx, currentFolderId, rcalls, failures, rlog>>
    /\ UNCHANGED storeVars
    /\ UNCHANGED uploadVars
    /\ UNCHANGED concurrentVars

\* the for loop of line 206 of handler f descended into `folderId`
DescendIn(f, folderId) ==
    IF f.idx < Len(f.path)
    THEN [f EXCEPT !.idx = @ + 1, !.cur = folderId, !.pc = "find"]
    ELSE [f EXCEPT !.pc = "done", !.folderId = folderId]

\* the lookup waits while another handler is between its lookup and its creation
findFolderLocked(p) ==
    /\ p \in 1..Len(flows)
    /\ flows[p].pc = "find"
    /\ \A q \in 1..Len(flows) : flows[q].pc # "create"
    /\ LET f == flows[p]
       IN  IF FoldersNamed(f.path[f.idx], f.cur) = {}
           THEN flows' = [flows EXCEPT ![p] = [f EXCEPT !.pc = "create"]]
           ELSE \E existingFolder \in FoldersNamed(f.path[f.idx], f.cur) :
                    flows' = [flows EXCEPT ![p] = DescendIn(f, existingFolder.id)]
    /\ UNCHANGED <<rreq, rpc, folderPath, ridx, currentFolderId, rcalls, failures, rlog>>
    /\ UNCHANGED storeVars
    /\ UNCHANGED uploadVars
    /\ UNCHANGED concurrentVars

\* findFolder lines 224-236 and lines 208-213, run by handler p
findFolderIn(p) ==
    /\ p \in 1..Len(flows)
    /\ flows[p].pc = "find"
    /\ LET f == flows[p]
       IN  \/ /\ failures < MaxFailures
              /\ failures' = failures + 1
              /\ flows' = [flows EXCEPT ![p] = [f EXCEPT !.pc = "create"]]
           \/ /\ UNCHANGED failures
              /\ IF FoldersNamed(f.path[f.idx], f.cur) = {}
                 THEN flows' = [flows EXCEPT ![p] = [f EXCEPT !.pc = "create"]]
                 ELSE \E existingFolder \in FoldersNamed(f.path[f.idx], f.cur) :
                          flows' = [flows EXCEPT ![p] = DescendIn(f, existingFolder.id)]
    /\ UNCHANGED <<rreq, rpc, folderPath, ridx, currentFolderId, rcalls, rlog>>
    /\ UNCHANGED storeVars
    /\ UNCHANGED uploadVars
    /\ UNCHANGED concurrentVars

\* the identifier the store gives the folder handler p creates for its i-th
\* segment: new, whatever the order the handlers' calls arrive in
NewIdFor(p, i) == "id" \o ToString(p) \o "s" \o ToString(i)

\* createFolder lines 239-255 and lines 214-216, run by handler p
createFolderIn(p) ==
    /\ p \in 1..Len(flows)
    /\ flows[p].pc = "create"
    /\ LET f == flows[p]
       IN  \/ /\ failures < MaxFailures
              /\ failures' = failures + 1
              /\ flows' = [flows EXCEPT ![p] = [f EXCEPT !.pc = "failed"]]
              /\ UNCHANGED <<drive, nextId>>
           \/ /\ UNCHANGED failures
              /\ drive' = drive \cup {FolderEntry(NewIdFor(p, f.idx), f.path[f.idx], f.cur)}
              /\ UNCHANGED nextId
              /\ flows' = [flows EXCEPT ![p] =
                                DescendIn([f EXCEPT !.created = Append(@, NewIdFor(p, f.idx))],
                                          NewIdFor(p, f.idx))]
    /\ UNCHANGED <<rreq, rpc, folderPath, ridx, currentFolderId, rcalls, rlog>>
    /\ UNCHANGED sessions
    /\ UNCHANGED uploadVars
    /\ UNCHANGED concurrentVars

findFolderConcurrent == \E p \in 1..MaxFlows : findFolderIn(p)

createFolderConcurrent == \E p \in 1..MaxFlows : createFolderIn(p)

----------------------------------------------------------------------------
(* POST /api/upload *)

\* the older handler has not taken a request
NoOldRequest == [pc |-> "idle"]

NoRequest == [folderId |-> "", files |-> <<>>]
NoResponse == [status |-> 0]
NoCalls == [file |-> 0, lists |-> 0, listFailed |-> FALSE, tokens |-> 0, inits |-> 0,
            creates |-> 0, sends |-> <<>>]

\* the value of a function that falls off its end
Undefined == [undefined |-> TRUE]
IsUndefined(r) == "undefined" \in DOMAIN r

FailedOutcome(file, error) ==
    [success |-> FALSE, fileName |-> file.originalname, error |-> error]

\* the outcome reports the name the client sent, not the name stored
SuccessOutcomeOriginalName(file, fileName, fileId) ==
    [success |-> TRUE, fileName |-> file.originalname, originalName |-> file.originalname,
     fileId |-> fileId, size |-> file.size, renamed |-> fileName # file.originalname]

\* lines 278-285 with the result of simpleUpload (358-364) or resumableUpload (428-434)
SuccessOutcome(file, fileName, fileId) ==
    [success |-> TRUE, fileName |-> fileName, originalName |-> file.originalname,
     fileId |-> fileId, size |-> file.size, renamed |-> fileName # file.originalname]

\* success reported as soon as one file succeeded
BatchResponseAnySuccess(rs) ==
    IF \E k \in 1..Len(rs) : IsUndefined(rs[k])
    THEN [status |-> 500, success |-> FALSE, error |-> "TypeError"]
    ELSE LET successful == SelectSeq(rs, LAMBDA r : r.success)
             failed == SelectSeq(rs, LAMBDA r : ~r.success)
         IN  [status |-> 200,
              success |-> (Len(successful) > 0),
              results |-> rs,
              summary |-> [total |-> Len(rs),
                           successful |-> Len(successful),
                           failed |-> Len(failed)]]

\* lines 160-180: the filters over results, the JSON answer, and the outer
\* catch that answers 500 when a filter reads .success of undefined
BatchResponse(rs) ==
    IF \E k \in 1..Len(rs) : IsUndefined(rs[k])
    THEN [status |-> 500, success |-> FALSE, error |-> "TypeError"]
    ELSE LET successful == SelectSeq(rs, LAMBDA r : r.success)
             failed == SelectSeq(rs, LAMBDA r : ~r.success)
         IN  [status |-> 200,
              success |-> (Len(failed) = 0),
              results |-> rs,
              summary |-> [total |-> Len(rs),
                           successful |-> Len(successful),
                           failed |-> Len(failed)]]

\* the aggregate limit taken as exclusive
ValidationErrorAtLimit(folderId, files) ==
    IF folderId = "" THEN "Target folder ID required"
    ELSE IF Len(files) = 0 THEN "No files provided"
    ELSE IF SumSizes(files) >= MAX_TOTAL_SIZE THEN "Total upload size exceeds limit"
    ELSE ""

\* the batch-level checks of lines 119-140; "" when the batch passes
ValidationError(folderId, files) ==
    IF folderId = "" THEN "Target folder ID required"
    ELSE IF Len(files) = 0 THEN "No files provided"
    ELSE IF SumSizes(files) > MAX_TOTAL_SIZE THEN "Total upload size exceeds limit"
    ELSE ""

file == req.files[idx]

\* the handler goes on inside the same file, to the remote call `pc`
Proceed(pc, name, cnt, url, bytes) ==
    /\ upc' = pc
    /\ finalFileName' = name
    /\ counter' = cnt
    /\ uploadUrl' = url
    /\ uploadedBytes' = bytes
    /\ UNCHANGED <<idx, results, events, response>>

\* the catch of line 151 goes on to the next file without an outcome
FileDoneDropFailure(outcome, end) ==
    LET rs == IF IsUndefined(outcome) \/ outcome.success
              THEN Append(results, outcome) ELSE results
    IN  /\ results' = rs
        /\ events' = Append(events, [listFailed |-> calls.listFailed, end |-> end])
        /\ finalFileName' = <<>>
        /\ counter' = 0
        /\ uploadUrl' = 0
        /\ uploadedBytes' = 0
        /\ IF idx < Len(req.files)
           THEN /\ idx' = idx + 1
                /\ upc' = "list0"
                /\ UNCHANGED response
           ELSE /\ idx' = idx
                /\ upc' = "done"
                /\ response' = BatchResponse(rs)

\* the loop of line 146 left at the first failed file
FileDoneStopOnFailure(outcome, end) ==
    LET rs == Append(results, outcome)
        stop == idx = Len(req.files) \/ (~IsUndefined(outcome) /\ ~outcome.success)
    IN  /\ results' = rs
        /\ events' = Append(events, [listFailed |-> calls.listFailed, end |-> end])
        /\ finalFileName' = <<>>
        /\ counter' = 0
        /\ uploadUrl' = 0
        /\ uploadedBytes' = 0
        /\ IF ~stop
           THEN /\ idx' = idx + 1
                /\ upc' = "list0"
                /\ UNCHANGED response
           ELSE /\ idx' = idx
                /\ upc' = "done"
                /\ response' = BatchResponse(rs)

\* uploadFileToDrive returned `outcome`: results.push (line 149), then the
\* next file of the loop or, after the last one, the answer
FileDone(outcome, end) ==
    LET rs == Append(results, outcome)
    IN  /\ results' = rs
        /\ events' = Append(events, [listFailed |-> calls.listFailed, end |-> end])
        /\ finalFileName' = <<>>
        /\ counter' = 0
        /\ uploadUrl' = 0
        /\ uploadedBytes' = 0
        /\ IF idx < Len(req.files)
           THEN /\ idx' = idx + 1
                /\ upc' = "list0"
                /\ UNCHANGED response
           ELSE /\ idx' = idx
                /\ upc' = "done"
                /\ response' = BatchResponse(rs)

\* the resumable upload chosen from the limit on
NameChosenAtLimit(name) ==
    IF file.size >= SIMPLE_UPLOAD_LIMIT
    THEN Proceed("token", name, 0, 0, 0)
    ELSE Proceed("create", name, 0, 0, 0)

\* getUniqueFileName returned `name`: lines 265-276 pick the upload path
NameChosen(name) ==
    IF file.size > SIMPLE_UPLOAD_LIMIT
    THEN Proceed("token", name, 0, 0, 0)
    ELSE Proceed("create", name, 0, 0, 0)

\* lines 115-146: validation, then the first file's name check is next
PostUploadOf(batches) ==
    /\ upc = "idle"
    /\ \E folderId \in FolderIds, files \in batches :
        /\ req' = [folderId |-> folderId, files |-> files]
        /\ IF ValidationError(folderId, files) # ""
           THEN /\ response' = [status |-> 400, success |-> FALSE,
                                error |-> ValidationError(folderId, files)]
                /\ upc' = "done"
                /\ UNCHANGED idx
           ELSE /\ upc' = "list0"
                /\ idx' = 1
                /\ UNCHANGED response
    /\ UNCHANGED <<results, finalFileName, counter, uploadUrl, uploadedBytes, calls, events>>
    /\ UNCHANGED storeVars
    /\ UNCHANGED ulog
    /\ UNCHANGED resolveVars
    /\ UNCHANGED concurrentVars

PostUpload == PostUploadOf(Batches)

\* the handler takes a request, the first one or the one after an answered
\* request (lines 115-146); the answered request goes to the log
PostUploadAfter(folderIds, batches) ==
    /\ upc \in {"idle", "done"}
    /\ ulog' = IF upc = "done"
               THEN Append(ulog, [req |-> req, results |-> results,
                                  events |-> events, response |-> response])
               ELSE ulog
    /\ \E folderId \in folderIds, files \in batches :
        /\ req' = [folderId |-> folderId, files |-> files]
        /\ IF ValidationError(folderId, files) # ""
           THEN /\ response' = [status |-> 400, success |-> FALSE,
                                error |-> ValidationError(folderId, files)]
                /\ upc' = "done"
                /\ idx' = 0
           ELSE /\ upc' = "list0"
                /\ idx' = 1
                /\ response' = NoResponse
    /\ results' = <<>>
    /\ events' = <<>>
    /\ calls' = NoCalls
    /\ UNCHANGED <<finalFileName, counter, uploadUrl, uploadedBytes>>
    /\ UNCHANGED storeVars
    /\ UNCHANGED resolveVars
    /\ UNCHANGED concurrentVars

\* the client resolved one path twice and uploads to the folder it was
\* answered, one request after the other, two in all
PostUploadToResolved ==
    /\ rpc = "idle"
    /\ Len(rlog) >= 2
    /\ rlog[Len(rlog)].ok
    /\ rlog[Len(rlog) - 1].ok
    /\ rlog[Len(rlog)].path = rlog[Len(rlog) - 1].path
    /\ Len(ulog) + (IF upc = "done" THEN 1 ELSE 0) < 2
    /\ PostUploadAfter({rlog[Len(rlog)].folderId}, IdemBatches)

PostUploadLimit == PostUploadOf(LimitBatches)

PostUploadNames == PostUploadOf(NameBatches)

\* the catch keeps the candidate that was being checked
KeepCandidate(originalName, candidate) == candidate

\* lines 326-330: the name returned when an existence query failed
FailOpenName(originalName, candidate) == originalName

\* getUniqueFileName lines 292-300 and the catch of line 326
ListOriginal ==
    /\ upc = "list0"
    /\ \E answer \in {"ok", "throw"} :
        /\ calls' = [NoCalls EXCEPT !.file = idx, !.lists = 1,
                                    !.listFailed = (answer = "throw")]
        /\ IF answer = "throw"
           THEN NameChosen(FailOpenName(file.originalname, file.originalname))
           ELSE IF FilesNamed(file.originalname, req.folderId) = {}
           THEN NameChosen(file.originalname)
           ELSE Proceed("listK", <<>>, 1, 0, 0)
    /\ UNCHANGED <<req>>
    /\ UNCHANGED storeVars
    /\ UNCHANGED ulog
    /\ UNCHANGED resolveVars
    /\ UNCHANGED concurrentVars

\* getUniqueFileName lines 307-324: one round of the do-while, and the
\* timestamp fallback when the loop ends
ListCandidate ==
    /\ upc = "listK"
    /\ LET newFileName == NumberedName(file.originalname, counter)
       IN  \E answer \in {"ok", "throw"} :
            /\ calls' = [calls EXCEPT !.lists = @ + 1,
                                      !.listFailed = (answer = "throw")]
            /\ IF answer = "throw"
               THEN NameChosen(FailOpenName(file.originalname, newFileName))
               ELSE IF FilesNamed(newFileName, req.folderId) = {}
               THEN NameChosen(newFileName)
               ELSE IF counter + 1 < COUNTER_LIMIT
               THEN Proceed("listK", <<>>, counter + 1, 0, 0)
               ELSE \E timestamp \in Timestamps :
                        NameChosen(TimestampName(file.originalname, timestamp))
    /\ UNCHANGED <<req>>
    /\ UNCHANGED storeVars
    /\ UNCHANGED ulog
    /\ UNCHANGED resolveVars
    /\ UNCHANGED concurrentVars

\* simpleUpload lines 346-369, and the catch of uploadFileToDrive
SimpleCreate ==
    /\ upc = "create"
    /\ calls' = [calls EXCEPT !.creates = @ + 1]
    /\ \E answer \in {"ok", "throw"} :
        IF answer = "ok"
        THEN /\ drive' = drive \cup {FileEntry(NewId, finalFileName, req.folderId)}
             /\ nextId' = nextId + 1
             /\ FileDone(SuccessOutcome(file, finalFileName, NewId), "created")
        ELSE /\ UNCHANGED <<drive, nextId>>
             /\ FileDone(FailedOutcome(file, [msg |-> "create failed"]), "createFailed")
    /\ UNCHANGED <<req, sessions>>
    /\ UNCHANGED ulog
    /\ UNCHANGED resolveVars
    /\ UNCHANGED concurrentVars

\* resumableUpload line 375
GetAccessToken ==
    /\ upc = "token"
    /\ calls' = [calls EXCEPT !.tokens = @ + 1]
    /\ \E answer \in {"ok", "throw"} :
        IF answer = "ok"
        THEN Proceed("init", finalFileName, 0, 0, 0)
        ELSE FileDone(FailedOutcome(file, [msg |-> "getAccessToken failed"]), "tokenFailed")
    /\ UNCHANGED <<req>>
    /\ UNCHANGED storeVars
    /\ UNCHANGED ulog
    /\ UNCHANGED resolveVars
    /\ UNCHANGED concurrentVars

\* initResponse.ok
ResponseOk(status) == 200 <= status /\ status <= 299

\* the loop goes round without taking the acknowledged window into account
LoopResend(bytes) ==
    Proceed("chunk", finalFileName, 0, uploadUrl, uploadedBytes)

\* resumableUpload after an await of the loop: the while test of line 406;
\* when it fails the function ends without a return statement
LoopOrFallOff(bytes) ==
    IF bytes < file.size
    THEN Proceed("chunk", finalFileName, 0, uploadUrl, bytes)
    ELSE FileDone(Undefined, "fellOff")

\* the session opened under the name the client sent
SessionOfOriginalName(fileName, folderId, size) ==
    [name |-> file.originalname, parent |-> folderId, total |-> size]

\* lines 378-393: the metadata and the X-Upload-Content-Length of the session
SessionOf(fileName, folderId, size) ==
    [name |-> fileName, parent |-> folderId, total |-> size]

\* resumableUpload lines 384-406
InitSession ==
    /\ upc = "init"
    /\ calls' = [calls EXCEPT !.inits = @ + 1]
    /\ \E answer \in InitStatuses \cup {0} :
        IF answer = 0
        THEN /\ UNCHANGED sessions
             /\ FileDone(FailedOutcome(file, [msg |-> "fetch failed"]), "initThrew")
        ELSE IF ~ResponseOk(answer)
        THEN /\ UNCHANGED sessions
             /\ FileDone(FailedOutcome(file,
                    [msg |-> "Failed to initialize resumable upload", status |-> answer]),
                    "initRejected")
        ELSE /\ sessions' = Append(sessions,
                    SessionOf(finalFileName, req.folderId, file.size))
             /\ IF 0 < file.size
                THEN Proceed("chunk", finalFileName, 0, Len(sessions) + 1, 0)
                ELSE FileDone(Undefined, "fellOff")
    /\ UNCHANGED <<req, drive, nextId>>
    /\ UNCHANGED ulog
    /\ UNCHANGED resolveVars
    /\ UNCHANGED concurrentVars

\* a window one unit short of the chunk size
WindowShort(bytes, size) ==
    [start |-> bytes, end |-> Min(bytes + CHUNK_SIZE - 1, size)]

\* lines 407-408: the window sent when `bytes` are acknowledged
Window(bytes, size) ==
    [start |-> bytes, end |-> Min(bytes + CHUNK_SIZE, size)]

\* a byte position: whole units of 1024 bytes and the bytes beyond them
BytePos(unit, rest) == [unit |-> unit, rest |-> rest]

\* the header with the window's end as its last byte
ContentRangeEndInclusive(start, end, total) ==
    [first |-> BytePos(start, 0), last |-> BytePos(end, 0), total |-> total]

\* line 416: 'Content-Range': `bytes ${start}-${end - 1}/${file.size}`
ContentRange(start, end, total) ==
    [first |-> BytePos(start, 0), last |-> BytePos(end - 1, 1024 - 1), total |-> total]

\* resumableUpload lines 406-441: one round of the while loop
SendChunk ==
    /\ upc = "chunk"
    /\ LET start == Window(uploadedBytes, file.size).start
           end == Window(uploadedBytes, file.size).end
       IN  \E answer \in ChunkStatuses \cup {0} :
            /\ calls' = [calls EXCEPT !.sends =
                            Append(@, [start |-> start, end |-> end,
                                       range |-> ContentRange(start, end, file.size),
                                       total |-> file.size, status |-> answer])]
            /\ IF answer = 0
               THEN /\ UNCHANGED <<drive, nextId>>
                    /\ FileDone(FailedOutcome(file, [msg |-> "fetch failed"]), "chunkThrew")
               ELSE IF answer = 308
               THEN /\ UNCHANGED <<drive, nextId>>
                    /\ LoopOrFallOff(end)
               ELSE IF answer = 200 \/ answer = 201
               THEN /\ drive' = drive \cup
                            {FileEntry(NewId, sessions[uploadUrl].name, sessions[uploadUrl].parent)}
                    /\ nextId' = nextId + 1
                    /\ FileDone(SuccessOutcome(file, finalFileName, NewId), "complete")
               ELSE /\ UNCHANGED <<drive, nextId>>
                    /\ FileDone(FailedOutcome(file,
                            [msg |-> "Chunk upload failed", status |-> answer]),
                            "chunkFatal")
    /\ UNCHANGED <<req, sessions>>
    /\ UNCHANGED ulog
    /\ UNCHANGED resolveVars
    /\ UNCHANGED concurrentVars

InitUpload ==
    /\ drive \in UploadDrives
    /\ nextId = 1
    /\ sessions = <<>>
    /\ req = NoRequest
    /\ upc = "idle"
    /\ idx = 0
    /\ results = <<>>
    /\ finalFileName = <<>>
    /\ counter = 0
    /\ uploadUrl = 0
    /\ uploadedBytes = 0
    /\ calls = NoCalls
    /\ events = <<>>
    /\ response = NoResponse
    /\ ulog = <<>>
    /\ rreq = NoPathRequest
    /\ rpc = "off"
    /\ folderPath = <<>>
    /\ ridx = 0
    /\ currentFolderId = ""
    /\ rcalls = NoResolveCalls
    /\ failures = 0
    /\ rlog = <<>>
    /\ flows = <<>>
    /\ uploads = <<>>
    /\ old = NoOldRequest

Next ==
    \/ PostUpload
    \/ ListOriginal
    \/ ListCandidate
    \/ SimpleCreate
    \/ GetAccessToken
    \/ InitSession
    \/ SendChunk

Spec == InitUpload /\ [][Next]_vars

NextLimit ==
    \/ PostUploadLimit
    \/ ListOriginal
    \/ ListCandidate
    \/ SimpleCreate
    \/ GetAccessToken
    \/ InitSession
    \/ SendChunk

SpecLimit == InitUpload /\ [][NextLimit]_vars

\* no request accepted yet: the upload handler in position u, the folder
\* path handler in position r
Fresh(u, r) ==
    /\ nextId = 1
    /\ sessions = <<>>
    /\ req = NoRequest
    /\ upc = u
    /\ idx = 0
    /\ results = <<>>
    /\ finalFileName = <<>>
    /\ counter = 0
    /\ uploadUrl = 0
    /\ uploadedBytes = 0
    /\ calls = NoCalls
    /\ events = <<>>
    /\ response = NoResponse
    /\ ulog = <<>>
    /\ rreq = NoPathRequest
    /\ rpc = r
    /\ folderPath = <<>>
    /\ ridx = 0
    /\ currentFolderId = ""
    /\ rcalls = NoResolveCalls
    /\ failures = 0
    /\ rlog = <<>>
    /\ flows = <<>>
    /\ uploads = <<>>
    /\ old = NoOldRequest

InitNames ==
    /\ drive \in NameDrives
    /\ Fresh("idle", "off")

NextNames ==
    \/ PostUploadNames
    \/ ListOriginal
    \/ ListCandidate
    \/ SimpleCreate
    \/ GetAccessToken
    \/ InitSession
    \/ SendChunk

SpecNames == InitNames /\ [][NextNames]_vars

InitIdem ==
    /\ drive \in IdemDrives
    /\ Fresh("idle", "idle")

\* the folder path requests come before the uploads
CreateFolderPathFirst == upc = "idle" /\ CreateFolderPathOf(IdemPathRequests)

NextIdem ==
    \/ CreateFolderPathFirst
    \/ findFolder
    \/ createFolder
    \/ PostUploadToResolved
    \/ ListOriginal
    \/ ListCandidate
    \/ SimpleCreate
    \/ GetAccessToken
    \/ InitSession
    \/ SendChunk

SpecIdem == InitIdem /\ [][NextIdem]_vars

InitRace ==
    /\ drive \in RaceDrives
    /\ Fresh("off", "off")

NextRace ==
    \/ CreateFolderPathConcurrent
    \/ findFolderConcurrent
    \/ createFolderConcurrent

SpecRace == InitRace /\ [][NextRace]_vars

InitResolve ==
    /\ drive \in ResolveDrives
    /\ nextId = 1
    /\ sessions = <<>>
    /\ req = NoRequest
    /\ upc = "off"
    /\ idx = 0
    /\ results = <<>>
    /\ finalFileName = <<>>
    /\ counter = 0
    /\ uploadUrl = 0
    /\ uploadedBytes = 0
    /\ calls = NoCalls
    /\ events = <<>>
    /\ response = NoResponse
    /\ ulog = <<>>
    /\ rreq = NoPathRequest
    /\ rpc = "idle"
    /\ folderPath = <<>>
    /\ ridx = 0
    /\ currentFolderId = ""
    /\ rcalls = NoResolveCalls
    /\ failures = 0
    /\ rlog = <<>>
    /\ flows = <<>>
    /\ uploads = <<>>
    /\ old = NoOldRequest

NextResolve ==
    \/ CreateFolderPath
    \/ findFolder
    \/ createFolder

SpecResolve == InitResolve /\ [][NextResolve]_vars

----------------------------------------------------------------------------
(* POST /api/upload, several requests in flight.                             *)
(* Each request runs the handler of lines 115-181 on its own locals; the     *)
(* record of a request in `uploads` holds them. The requests share the       *)
(* remote store. Remote failures are counted in `failures`.                  *)

resolveLocals == <<rreq, rpc, folderPath, ridx, currentFolderId, rcalls, rlog, flows>>

\* a file of two windows, and a one-shot file followed by a file of one
\* whole chunk
RaceBatches ==
    { <<File(N1, CHUNK_SIZE + 1)>>,
      <<File(N2, 1), File(N1, CHUNK_SIZE)>> }

\* uploadFileToDrive lines 265-276 with the name the check returned
NameChosenIn(u, name) ==
    [u EXCEPT !.pc = IF u.files[u.idx].size > SIMPLE_UPLOAD_LIMIT THEN "token" ELSE "create",
              !.finalFileName = name,
              !.counter = 0]

\* lines 146-175: the outcome is pushed; the next file, or the response
FileDoneIn(u, outcome) ==
    LET rs == Append(u.results, outcome)
        last == u.idx = Len(u.files)
    IN  [u EXCEPT !.results = rs,
                  !.finalFileName = <<>>,
                  !.counter = 0,
                  !.uploadUrl = 0,
                  !.uploadedBytes = 0,
                  !.idx = IF last THEN @ ELSE @ + 1,
                  !.pc = IF last THEN "done" ELSE "list0",
                  !.response = IF last THEN BatchResponse(rs) ELSE @]

\* lines 115-146 for a request that arrives while others are in flight
PostUploadConcurrent ==
    /\ Len(uploads) < MaxFlows
    /\ \E folderId \in {TargetFolder}, files \in RaceBatches :
        uploads' = Append(uploads,
            [folderId |-> folderId, files |-> files, results |-> <<>>,
             finalFileName |-> <<>>, counter |-> 0, uploadUrl |-> 0, uploadedBytes |-> 0,
             idx |-> IF ValidationError(folderId, files) # "" THEN 0 ELSE 1,
             pc |-> IF ValidationError(folderId, files) # "" THEN "done" ELSE "list0",
             response |-> IF ValidationError(folderId, files) # ""
                          THEN [status |-> 400, success |-> FALSE,
                                error |-> ValidationError(folderId, files)]
                          ELSE NoResponse])
    /\ UNCHANGED <<failures, old>>
    /\ UNCHANGED storeVars
    /\ UNCHANGED resolveLocals
    /\ UNCHANGED uploadVars

\* getUniqueFileName lines 292-300 and the catch of line 326, run by request p
ListOriginalIn(p) ==
    /\ p \in 1..Len(uploads)
    /\ uploads[p].pc = "list0"
    /\ LET u == uploads[p]
           originalName == u.files[u.idx].originalname
       IN  \/ /\ failures < MaxFailures
              /\ failures' = failures + 1
              /\ uploads' = [uploads EXCEPT ![p] =
                                NameChosenIn(u, FailOpenName(originalName, originalName))]
           \/ /\ UNCHANGED failures
              /\ uploads' = [uploads EXCEPT ![p] =
                                IF FilesNamed(originalName, u.folderId) = {}
                                THEN NameChosenIn(u, originalName)
                                ELSE [u EXCEPT !.pc = "listK", !.counter = 1]]
    /\ UNCHANGED old
    /\ UNCHANGED storeVars
    /\ UNCHANGED resolveLocals
    /\ UNCHANGED uploadVars

\* getUniqueFileName lines 307-324, run by request p
ListCandidateIn(p) ==
    /\ p \in 1..Len(uploads)
    /\ uploads[p].pc = "listK"
    /\ LET u == uploads[p]
           originalName == u.files[u.idx].originalname
           newFileName == NumberedName(originalName, u.counter)
       IN  \/ /\ failures < MaxFailures
              /\ failures' = failures + 1
              /\ uploads' = [uploads EXCEPT ![p] =
                                NameChosenIn(u, FailOpenName(originalName, newFileName))]
           \/ /\ UNCHANGED failures
              /\ IF FilesNamed(newFileName, u.folderId) = {}
                 THEN uploads' = [uploads EXCEPT ![p] = NameChosenIn(u, newFileName)]
                 ELSE IF u.counter + 1 < COUNTER_LIMIT
                 THEN uploads' = [uploads EXCEPT ![p] = [u EXCEPT !.counter = @ + 1]]
                 ELSE \E timestamp \in Timestamps :
                        uploads' = [uploads EXCEPT ![p] =
                                        NameChosenIn(u, TimestampName(originalName, timestamp))]
    /\ UNCHANGED old
    /\ UNCHANGED storeVars
    /\ UNCHANGED resolveLocals
    /\ UNCHANGED uploadVars

\* simpleUpload lines 346-369 and the catch of uploadFileToDrive, run by request p
SimpleCreateIn(p) ==
    /\ p \in 1..Len(uploads)
    /\ uploads[p].pc = "create"
    /\ LET u == uploads[p]
           f == u.files[u.idx]
           id == NewIdFor(p, u.idx)
       IN  \/ /\ failures < MaxFailures
              /\ failures' = failures + 1
              /\ UNCHANGED drive
              /\ uploads' = [uploads EXCEPT ![p] =
                                FileDoneIn(u, FailedOutcome(f, [msg |-> "create failed"]))]
           \/ /\ UNCHANGED failures
              /\ drive' = drive \cup {FileEntry(id, u.finalFileName, u.folderId)}
              /\ uploads' = [uploads EXCEPT ![p] =
                                FileDoneIn(u, SuccessOutcome(f, u.finalFileName, id))]
    /\ UNCHANGED <<nextId, sessions, old>>
    /\ UNCHANGED resolveLocals
    /\ UNCHANGED uploadVars

\* resumableUpload line 375, run by request p
GetAccessTokenIn(p) ==
    /\ p \in 1..Len(uploads)
    /\ uploads[p].pc = "token"
    /\ LET u == uploads[p]
           f == u.files[u.idx]
       IN  \/ /\ failures < MaxFailures
              /\ failures' = failures + 1
              /\ uploads' = [uploads EXCEPT ![p] =
                                FileDoneIn(u, FailedOutcome(f, [msg |-> "getAccessToken failed"]))]
           \/ /\ UNCHANGED failures
              /\ uploads' = [uploads EXCEPT ![p] = [u EXCEPT !.pc = "init"]]
    /\ UNCHANGED old
    /\ UNCHANGED storeVars
    /\ UNCHANGED resolveLocals
    /\ UNCHANGED uploadVars

\* resumableUpload lines 384-406, run by request p; the store notes which
\* transfer opened the session and the chunks it receives for it
InitSessionIn(p) ==
    /\ p \in 1..Len(uploads)
    /\ uploads[p].pc = "init"
    /\ LET u == uploads[p]
           f == u.files[u.idx]
       IN  \/ /\ failures < MaxFailures
              /\ failures' = failures + 1
              /\ UNCHANGED sessions
              /\ \E answer \in {0, 403} :
                    uploads' = [uploads EXCEPT ![p] =
                        FileDoneIn(u, FailedOutcome(f,
                            IF answer = 0 THEN [msg |-> "fetch failed"]
                            ELSE [msg |-> "Failed to initialize resumable upload",
                                  status |-> answer]))]
           \/ /\ UNCHANGED failures
              /\ sessions' = Append(sessions,
                                SessionOf(u.finalFileName, u.folderId, f.size)
                                    @@ [owner |-> <<p, u.idx>>, received |-> <<>>])
              /\ uploads' = [uploads EXCEPT ![p] =
                                IF 0 < f.size
                                THEN [u EXCEPT !.pc = "chunk",
                                               !.uploadUrl = Len(sessions) + 1,
                                               !.uploadedBytes = 0]
                                ELSE FileDoneIn(u, Undefined)]
    /\ UNCHANGED <<drive, nextId, old>>
    /\ UNCHANGED resolveLocals
    /\ UNCHANGED uploadVars

\* the endpoint kept in one place for all requests: the session opened last
EndpointLatest(u) == Len(sessions)

\* line 399: const uploadUrl, a local of the transfer
EndpointOf(u) == u.uploadUrl

\* resumableUpload lines 406-441, one round of the while loop, run by request p
SendChunkIn(p) ==
    /\ p \in 1..Len(uploads)
    /\ uploads[p].pc = "chunk"
    /\ LET u == uploads[p]
           f == u.files[u.idx]
           url == EndpointOf(u)
           w == Window(u.uploadedBytes, f.size)
           id == NewIdFor(p, u.idx)
       IN  /\ sessions' = [sessions EXCEPT ![url].received =
                                Append(@, [start |-> w.start, end |-> w.end,
                                           range |-> ContentRange(w.start, w.end, f.size),
                                           from |-> <<p, u.idx>>])]
           /\ \/ /\ failures < MaxFailures
                 /\ failures' = failures + 1
                 /\ UNCHANGED drive
                 /\ \E answer \in {0, 500} :
                        uploads' = [uploads EXCEPT ![p] =
                            FileDoneIn(u, FailedOutcome(f,
                                IF answer = 0 THEN [msg |-> "fetch failed"]
                                ELSE [msg |-> "Chunk upload failed", status |-> answer]))]
              \/ /\ UNCHANGED <<failures, drive>>
                 /\ uploads' = [uploads EXCEPT ![p] =
                                    IF w.end < f.size
                                    THEN [u EXCEPT !.uploadedBytes = w.end]
                                    ELSE FileDoneIn(u, Undefined)]
              \/ /\ UNCHANGED failures
                 /\ drive' = drive \cup
                        {FileEntry(id, sessions[url].name, sessions[url].parent)}
                 /\ uploads' = [uploads EXCEPT ![p] =
                                    FileDoneIn(u, SuccessOutcome(f, u.finalFileName, id))]
    /\ UNCHANGED <<nextId, old>>
    /\ UNCHANGED resolveLocals
    /\ UNCHANGED uploadVars

ListOriginalConcurrent == \E p \in 1..MaxFlows : ListOriginalIn(p)
ListCandidateConcurrent == \E p \in 1..MaxFlows : ListCandidateIn(p)
SimpleCreateConcurrent == \E p \in 1..MaxFlows : SimpleCreateIn(p)
GetAccessTokenConcurrent == \E p \in 1..MaxFlows : GetAccessTokenIn(p)
InitSessionConcurrent == \E p \in 1..MaxFlows : InitSessionIn(p)
SendChunkConcurrent == \E p \in 1..MaxFlows : SendChunkIn(p)

\* the target folder holds the first name
InitConcurrent ==
    /\ drive = {FileEntry("x1", N1, TargetFolder)}
    /\ Fresh("off", "off")

NextConcurrent ==
    \/ PostUploadConcurrent
    \/ ListOriginalConcurrent
    \/ ListCandidateConcurrent
    \/ SimpleCreateConcurrent
    \/ GetAccessTokenConcurrent
    \/ InitSessionConcurrent
    \/ SendChunkConcurrent

SpecConcurrent == InitConcurrent /\ [][NextConcurrent]_vars

----------------------------------------------------------------------------
(* The older upload handler, src/unnamed/part_000: POST /api/upload starts  *)
(* uploadFileToDrive for every file of the batch and awaits them together.  *)
(* Each call is cut at its two awaits, files.list and files.create; the     *)
(* answers arrive in any order.                                             *)

\* the files of the older handler's batches; it has no size policy of its own
OldFileChoices == {File(N1, 1), File(N2, 1)}

OldBatches == SeqsUpTo(OldFileChoices, MaxFiles)

\* what the store holds before the batch arrives: nothing, one entry of the
\* name, two entries of the name, an entry of the name in another folder
OldDrives ==
    { {},
      {FileEntry("x1", N1, TargetFolder)},
      {FileEntry("x1", N1, TargetFolder), FileEntry("x2", N1, TargetFolder)},
      {FileEntry("x1", N1, MAIN_FOLDER_ID)} }

\* one call of uploadFileToDrive waiting for the answer of files.list
OldTask == [pc |-> "list", found |-> {}, created |-> {}, outcome |-> Undefined]

\* the check that never finds the file
AlreadyExistsNever(existingFiles) == FALSE

\* existingFiles.data.files.length > 0
AlreadyExists(existingFiles) == existingFiles # {}

\* the outcome for a file found in the folder, files[0] being `existing`
ExistsOutcome(f, existing) ==
    [success |-> TRUE, fileName |-> f.originalname, fileId |-> existing.id,
     message |-> "File already exists"]

\* the outcome for a file just created
CreatedOutcome(f, fileId) ==
    [success |-> TRUE, fileName |-> f.originalname, fileId |-> fileId, size |-> f.size]

\* the outcome built in the catch of the older uploadFileToDrive
OldFailedOutcome(f, error) ==
    [success |-> FALSE, fileName |-> f.originalname, error |-> error]

\* the answer of the older handler once every call has returned
OldBatchResponse(rs) ==
    LET successful == SelectSeq(rs, LAMBDA r : r.success)
        failed == SelectSeq(rs, LAMBDA r : ~r.success)
    IN  [status |-> 200,
         success |-> (Len(failed) = 0),
         results |-> rs,
         summary |-> [total |-> Len(rs),
                      successful |-> Len(successful),
                      failed |-> Len(failed)]]

OldValidationError(folderId, files) ==
    IF folderId = "" THEN "Target folder ID required"
    ELSE IF Len(files) = 0 THEN "No files provided"
    ELSE ""

\* a call of uploadFileToDrive returns; Promise.all resolves with the last
\* one, and the handler answers
OldTaskDone(i, task) ==
    LET tasks == [old.tasks EXCEPT ![i] = task]
    IN  IF \A k \in 1..Len(tasks) : tasks[k].pc = "done"
        THEN old' = [old EXCEPT !.tasks = tasks,
                                !.pc = "done",
                                !.response = OldBatchResponse(
                                    [k \in 1..Len(tasks) |-> tasks[k].outcome])]
        ELSE old' = [old EXCEPT !.tasks = tasks]

\* the handler of part_000 up to Promise.all: every call has issued its
\* files.list
PostUploadOld ==
    /\ old.pc = "idle"
    /\ \E folderId \in FolderIds, files \in OldBatches :
        LET error == OldValidationError(folderId, files)
        IN  IF error # ""
            THEN old' = [pc |-> "done", folderId |-> folderId, files |-> files,
                         tasks |-> <<>>,
                         response |-> [status |-> 400, success |-> FALSE, error |-> error]]
            ELSE old' = [pc |-> "running", folderId |-> folderId, files |-> files,
                         tasks |-> [k \in 1..Len(files) |-> OldTask],
                         response |-> NoResponse]
    /\ UNCHANGED storeVars
    /\ UNCHANGED uploadVars
    /\ UNCHANGED resolveVars
    /\ UNCHANGED uploads

\* uploadFileToDrive of part_000, the answer of files.list (the query is the
\* one of FilesNamed): the file is reported as existing, or files.create is
\* issued
uploadFileToDriveCheck ==
    /\ old.pc = "running"
    /\ \E i \in 1..Len(old.tasks) :
        /\ old.tasks[i].pc = "list"
        /\ LET f == old.files[i]
               existingFiles == FilesNamed(f.originalname, old.folderId)
           IN  \E answer \in {"ok", "throw"} :
                IF answer = "throw"
                THEN OldTaskDone(i, [old.tasks[i] EXCEPT
                        !.pc = "done",
                        !.outcome = OldFailedOutcome(f, "list failed")])
                ELSE IF AlreadyExists(existingFiles)
                THEN \E existing \in existingFiles :
                        OldTaskDone(i, [old.tasks[i] EXCEPT
                            !.pc = "done",
                            !.found = existingFiles,
                            !.outcome = ExistsOutcome(f, existing)])
                ELSE old' = [old EXCEPT !.tasks[i].pc = "create"]
    /\ UNCHANGED storeVars
    /\ UNCHANGED uploadVars
    /\ UNCHANGED resolveVars
    /\ UNCHANGED uploads

\* uploadFileToDrive of part_000, the answer of files.create
uploadFileToDriveCreate ==
    /\ old.pc = "running"
    /\ \E i \in 1..Len(old.tasks) :
        /\ old.tasks[i].pc = "create"
        /\ LET f == old.files[i]
           IN  \E answer \in {"ok", "throw"} :
                IF answer = "throw"
                THEN /\ OldTaskDone(i, [old.tasks[i] EXCEPT
                            !.pc = "done",
                            !.outcome = OldFailedOutcome(f, "create failed")])
                     /\ UNCHANGED <<drive, nextId>>
                ELSE /\ drive' = drive \cup {FileEntry(NewId, f.originalname, old.folderId)}
                     /\ nextId' = nextId + 1
                     /\ OldTaskDone(i, [old.tasks[i] EXCEPT
                            !.pc = "done",
                            !.created = {NewId},
                            !.outcome = CreatedOutcome(f, NewId)])
    /\ UNCHANGED sessions
    /\ UNCHANGED uploadVars
    /\ UNCHANGED resolveVars
    /\ UNCHANGED uploads

InitOld ==
    /\ drive \in OldDrives
    /\ Fresh("off", "off")

NextOld ==
    \/ PostUploadOld
    \/ uploadFileToDriveCheck
    \/ uploadFileToDriveCreate

SpecOld == InitOld /\ [][NextOld]_vars

----------------------------------------------------------------------------
(* Properties of POST /api/upload *)

\* the batch passed the checks of lines 119-140
Validated ==
    /\ upc \notin {"idle", "off"}
    /\ req.folderId # ""
    /\ Len(req.files) > 0
    /\ SumSizes(req.files) <= MAX_TOTAL_SIZE

\* `calls` describes a file whose upload has ended
FileJustFinished ==
    /\ upc \in {"list0", "done"}
    /\ events # <<>>
    /\ calls.file = Len(events)

LastFile == req.files[calls.file]
LastEnd == events[Len(events)].end
IsFailed(r) == ~IsUndefined(r) /\ ~r.success
IsSuccess(r) == ~IsUndefined(r) /\ r.success
HasRemoteId(r) == \E e \in drive : e.id = r.fileId
Ceil(a, b) == (a + b - 1) \div b

\* ways an upload ends that are failures of the remote store
FatalEnds ==
    {"tokenFailed", "initThrew", "initRejected", "chunkThrew", "chunkFatal", "createFailed"}
SuccessEnds == {"created", "complete"}

\* C1: once the batch-level validation has passed, the handler answers with a
\* batch result that lists an outcome for every input file, whatever the
\* remote store answered; no per-file event makes the call fail as a whole.
C1_AlwaysBatchResult ==
    (upc = "done" /\ Validated) =>
        /\ response.status = 200
        /\ Len(response.results) = Len(req.files)
        /\ \A k \in 1..Len(req.files) : ~IsUndefined(response.results[k])

\* C2 as stated: a failure of a file in its name check, session initiation,
\* chunk send or one-shot creation produces a failed outcome for that file,
\* and a file has a failed outcome only if it met such a failure.
C2_AnyFailureFailsTheFile ==
    \A k \in 1..Len(results) :
        events[k].end # "fellOff" =>
            ((events[k].listFailed \/ events[k].end \in FatalEnds) <=> IsFailed(results[k]))

C2_OwnFailureOnly ==
    \A k \in 1..Len(results) : (events[k].end \in FatalEnds) <=> IsFailed(results[k])

C2_AllProcessed ==
    /\ Len(events) = Len(results)
    /\ upc \in {"list0", "listK", "create", "token", "init", "chunk"} => Len(results) = idx - 1
    /\ (upc = "done" /\ Validated) => Len(results) = Len(req.files)

C2_Scenario ==
    (/\ upc = "done"
     /\ Len(req.files) = 3
     /\ Len(events) = 3
     /\ events[2].end = "chunkFatal"
     /\ events[1].end \in SuccessEnds
     /\ events[3].end \in SuccessEnds) =>
        /\ response.status = 200
        /\ response.summary = [total |-> 3, successful |-> 2, failed |-> 1]
        /\ ~response.results[2].success
        /\ response.results[1].success /\ HasRemoteId(response.results[1])
        /\ response.results[3].success /\ HasRemoteId(response.results[3])

C2_EarlierKept ==
    \A k \in 1..Len(results) : Len(results') >= k /\ results'[k] = results[k]

\* C2, amended: a failure of a file's session initiation, chunk send or
\* one-shot creation produces a failed outcome for that file and for no
\* other, while a failed name check alone does not fail the file; every later
\* file is still processed and the outcomes of earlier files stay as they
\* are. In a batch of 3 files where only file 2's chunk send returns a fatal
\* status: total=3, successful=2, failed=1, file 2 has success=false, files
\* 1 and 3 have success=true with remote identifiers.
C2_FailureIsolated ==
    /\ [](C2_OwnFailureOnly /\ C2_AllProcessed /\ C2_Scenario)
    /\ [][C2_EarlierKept]_vars

C2_Witness ==
    /\ upc = "done"
    /\ Len(req.files) = 3
    /\ Len(events) = 3
    /\ events[2].end = "chunkFatal"
    /\ events[1].end \in SuccessEnds
    /\ events[3].end \in SuccessEnds
    /\ response.status = 200

\* C3: for a batch that passed validation the outcome list has exactly one
\* outcome per input file, in input order: the i-th entry is the outcome of
\* the i-th file.
C3_OneOutcomePerFile ==
    (upc = "done" /\ Validated) =>
        /\ Len(results) = Len(req.files)
        /\ \A i \in 1..Len(req.files) :
            /\ ~IsUndefined(results[i])
            /\ IF results[i].success
               THEN /\ results[i].originalName = req.files[i].originalname
                    /\ results[i].size = req.files[i].size
               ELSE results[i].fileName = req.files[i].originalname

\* C4: a batch with a missing folder id, no file, or an aggregate size
\* strictly above MAX_TOTAL_SIZE is answered with one validation failure
\* before any transfer: no remote call is issued, the store is untouched and
\* no outcome is produced; an aggregate size equal to MAX_TOTAL_SIZE is not
\* rejected.
C4_ValidationFirst ==
    /\ (/\ upc # "idle"
        /\ \/ req.folderId = ""
           \/ Len(req.files) = 0
           \/ SumSizes(req.files) > MAX_TOTAL_SIZE) =>
            /\ upc = "done"
            /\ response.status = 400
            /\ results = <<>>
            /\ events = <<>>
            /\ calls = NoCalls
            /\ sessions = <<>>
            /\ nextId = 1
            /\ drive \in UploadDrives
    /\ (/\ upc # "idle"
        /\ req.folderId # ""
        /\ Len(req.files) > 0
        /\ SumSizes(req.files) = MAX_TOTAL_SIZE) =>
            /\ response.status # 400
            /\ upc = "done" => Len(results) = Len(req.files)

C4_Witness ==
    /\ upc = "done"
    /\ req.folderId # ""
    /\ SumSizes(req.files) > MAX_TOTAL_SIZE
    /\ response.status = 400

\* C5: every chunked transfer ends either Completed, with a success outcome
\* that carries the remote identifier, or Failed, with an error that carries
\* the status received; it never ends in any other way.
C5_TwoTerminalStates ==
    \A k \in 1..Len(results) :
        req.files[k].size > SIMPLE_UPLOAD_LIMIT =>
            /\ ~IsUndefined(results[k])
            /\ results[k].success => HasRemoteId(results[k])
            /\ ~results[k].success =>
                /\ "error" \in DOMAIN results[k]
                /\ events[k].end \in {"initRejected", "chunkFatal"} =>
                        "status" \in DOMAIN results[k].error

\* C6: a chunked transfer of size S with chunk size C whose windows are all
\* answered Continue except the one ending at S, which is answered Complete,
\* issues exactly ceil(S/C) chunk sends; no transfer issues more.
C6_ChunkCount ==
    /\ calls.file >= 1 =>
            Len(calls.sends) <= Ceil(req.files[calls.file].size, CHUNK_SIZE)
    /\ (/\ FileJustFinished
        /\ LastEnd = "complete"
        /\ calls.sends[Len(calls.sends)].end = LastFile.size) =>
            /\ Len(calls.sends) = Ceil(LastFile.size, CHUNK_SIZE)
            /\ \A j \in 1..(Len(calls.sends) - 1) : calls.sends[j].status = 308
            /\ calls.sends[Len(calls.sends)].status \in {200, 201}

C6_Witness ==
    /\ FileJustFinished
    /\ LastEnd = "complete"
    /\ Len(calls.sends) = 3
    /\ calls.sends[3].end = LastFile.size

\* C7: a file at or below the simple-upload threshold never starts a
\* resumable session and gets exactly one one-shot creation; a file above it
\* always starts a resumable session and never gets a one-shot creation;
\* whatever the name check returned.
C7_PathBySize ==
    calls.file >= 1 =>
        LET f == req.files[calls.file]
            finished == calls.file = Len(events)
        IN  /\ f.size <= SIMPLE_UPLOAD_LIMIT =>
                /\ calls.tokens = 0
                /\ calls.inits = 0
                /\ calls.sends = <<>>
                /\ calls.creates <= 1
                /\ finished => calls.creates = 1
            /\ f.size > SIMPLE_UPLOAD_LIMIT =>
                /\ calls.creates = 0
                /\ calls.tokens <= 1
                /\ calls.inits <= 1
                /\ finished => calls.tokens = 1
                /\ (finished /\ LastEnd # "tokenFailed") => calls.inits = 1

C7_Witness ==
    /\ FileJustFinished
    /\ calls.listFailed
    /\ LastFile.size = SIMPLE_UPLOAD_LIMIT
    /\ calls.creates = 1
    /\ calls.inits = 0

\* C8: in every batch result total is the number of input files, successful
\* counts the outcomes with success=true, failed counts the others, the two
\* add up to total, and the overall success flag is true iff failed = 0.
C8_Counts ==
    response.status = 200 =>
        LET rs == response.results
            succeeded == {k \in 1..Len(rs) : rs[k].success}
            others == {k \in 1..Len(rs) : ~rs[k].success}
        IN  /\ response.summary.total = Len(req.files)
            /\ response.summary.successful = Cardinality(succeeded)
            /\ response.summary.failed = Cardinality(others)
            /\ response.summary.successful + response.summary.failed = response.summary.total
            /\ response.success <=> (response.summary.failed = 0)

C8_Witness ==
    /\ response.status = 200
    /\ response.summary.successful >= 1
    /\ response.summary.failed >= 1

----------------------------------------------------------------------------
(* Properties of the folder path resolver *)

\* the store `start` holds no folder of the path: its first segment is absent
NoFolderOfPath(start, path) ==
    ~\E e \in start : e.isFolder /\ e.name = path[1] /\ e.parent = MAIN_FOLDER_ID

\* the finished resolve met no remote failure
NoRemoteFailure(entry) ==
    entry.path # <<>> /\ entry.ok /\ entry.calls.findFailed = <<>>

\* C9: from a store with no folder of the path, and without remote failure,
\* resolve creates exactly one folder per segment, in segment order, each
\* under the folder of the previous segment (the first under the root), and
\* returns the last one's identifier; the next resolve of the same path
\* returns the same identifier and creates no folder.
C9_CreateOncePerSegment ==
    \A k \in 1..Len(rlog) :
        LET entry == rlog[k]
            path == entry.path
            created == entry.calls.created
        IN  (NoRemoteFailure(entry) /\ NoFolderOfPath(entry.calls.start, path)) =>
                /\ Len(created) = Len(path)
                /\ entry.calls.creates = [i \in 1..Len(path) |-> i]
                /\ \A i \in 1..Len(path) :
                    /\ created[i].isFolder
                    /\ created[i].name = path[i]
                    /\ created[i].parent =
                            IF i = 1 THEN MAIN_FOLDER_ID ELSE created[i - 1].id
                    /\ created[i] \in drive
                    /\ created[i] \notin entry.calls.start
                    /\ \A j \in 1..Len(path) : created[j].id = created[i].id => j = i
                /\ entry.folderId = created[Len(path)].id
                /\ (/\ k < Len(rlog)
                    /\ rlog[k + 1].path = path
                    /\ NoRemoteFailure(rlog[k + 1])) =>
                        /\ rlog[k + 1].folderId = entry.folderId
                        /\ rlog[k + 1].calls.created = <<>>
                        /\ rlog[k + 1].calls.creates = <<>>

C9_Witness ==
    /\ Len(rlog) = 2
    /\ NoRemoteFailure(rlog[1])
    /\ NoRemoteFailure(rlog[2])
    /\ rlog[1].calls.start = {}
    /\ rlog[1].path = rlog[2].path
    /\ Len(rlog[1].calls.created) = 4
    /\ rlog[2].calls.created = <<>>
    /\ rlog[2].folderId = rlog[1].folderId

\* a folder creation was issued for the segment whose lookup failed, or for
\* a later one
CreatesAfterFailedLookup(c) ==
    /\ c.findFailed # <<>>
    /\ \E i \in 1..Len(c.creates) : c.creates[i] >= c.findFailed[1]

\* C10: resolve fails at the first remote failure it meets, lookup or
\* creation: after a failed lookup it issues no folder creation for that
\* segment or a later one, and returns no folder identifier.
C10_FailsAtFirstFailure ==
    /\ ~CreatesAfterFailedLookup(rcalls)
    /\ \A k \in 1..Len(rlog) :
        /\ ~CreatesAfterFailedLookup(rlog[k].calls)
        /\ rlog[k].calls.findFailed # <<>> => (~rlog[k].ok /\ rlog[k].folderId = "")
        /\ ~rlog[k].ok => rlog[k].folderId = ""

----------------------------------------------------------------------------
(* Properties of the name check *)

\* the name check of the current file has returned and nothing is created yet
NameCheckDone == Validated /\ upc \in {"create", "token"}

DecimalOf(k) ==
    LET d == <<"0", "1", "2", "3", "4", "5", "6", "7", "8", "9">>
    IN  IF k < 10 THEN <<d[k + 1]>> ELSE <<d[(k \div 10) + 1], d[(k % 10) + 1]>>

\* stem and extension: the extension is empty when the name has no ".",
\* otherwise it starts at a "." and holds no other "."
StemExt(n) ==
    CHOOSE p \in { [stem |-> SubSeq(n, 1, i), ext |-> SubSeq(n, i + 1, Len(n))] : i \in 0..Len(n) } :
        IF \A i \in 1..Len(n) : n[i] # "."
        THEN p.ext = <<>>
        ELSE /\ p.ext # <<>>
             /\ p.ext[1] = "."
             /\ \A i \in 2..Len(p.ext) : p.ext[i] # "."

\* the k-th name the check tries: the desired name, then stem(k)ext
Candidate(n, k) ==
    IF k = 0 THEN n
    ELSE StemExt(n).stem \o <<"(">> \o DecimalOf(k) \o <<")">> \o StemExt(n).ext

\* the candidates 0..99 no entry of the folder has
FreeCandidates(n, folder) ==
    {k \in 0..99 : \A e \in drive : ~(e.name = Candidate(n, k) /\ e.parent = folder)}

NamesIn(folder) == {e.name : e \in {f \in drive : f.parent = folder}}

\* C11: when every existence query succeeds and one of the desired name,
\* stem(1)ext, ..., stem(99)ext is free in the folder, the name check returns
\* the first free one, after one query per name tried: the desired name
\* unchanged when nothing collides, r(1).p when only r.p exists, r(2).p when
\* r.p and r(1).p exist.
C11_FirstFreeName ==
    (NameCheckDone /\ ~calls.listFailed) =>
        LET n == file.originalname
            free == FreeCandidates(n, req.folderId)
        IN  /\ free # {} =>
                LET k == CHOOSE i \in free : \A j \in free : i <= j
                IN  /\ finalFileName = Candidate(n, k)
                    /\ calls.lists = k + 1
            /\ n \notin NamesIn(req.folderId) => finalFileName = n
            /\ (n = N1 /\ NamesIn(req.folderId) = {N1})
                    => finalFileName = <<"r", "(", "1", ")", ".", "p">>
            /\ (n = N1 /\ NamesIn(req.folderId) = {N1, <<"r", "(", "1", ")", ".", "p">>})
                    => finalFileName = <<"r", "(", "2", ")", ".", "p">>

\* the name check went past two-digit counters, skipped nothing, and split a
\* name with two dots
C11_Witness ==
    /\ NameCheckDone
    /\ ~calls.listFailed
    /\ file.originalname = N1
    /\ finalFileName = <<"r", "(", "9", "9", ")", ".", "p">>

C11_WitnessTwoDots ==
    /\ NameCheckDone
    /\ ~calls.listFailed
    /\ finalFileName = <<"a", ".", "b", "(", "2", ")", ".", "c">>

\* the current file is past its name check and its upload has not ended
Uploading == Validated /\ upc \in {"create", "token", "init", "chunk"}

\* C12: when an existence query of the name check fails, for the desired name
\* or for a numbered candidate, the check returns the desired name: the
\* upload goes on under that name, a successful upload is reported and stored
\* under it, and the file is reported failed only when the upload itself
\* failed.
C12_FailOpen ==
    /\ (Uploading /\ calls.listFailed) => finalFileName = file.originalname
    /\ (Validated /\ FileJustFinished /\ events[Len(events)].listFailed) =>
        LET r == results[calls.file]
        IN  /\ LastEnd \in SuccessEnds =>
                /\ IsSuccess(r)
                /\ r.fileName = LastFile.originalname
                /\ \E e \in drive : /\ e.id = r.fileId
                                    /\ e.name = LastFile.originalname
                                    /\ e.parent = req.folderId
            /\ IsFailed(r) => LastEnd \in FatalEnds

\* the query of a numbered candidate failed and the file was stored under the
\* desired name, next to the entry that already has it
C12_Witness ==
    /\ Validated
    /\ FileJustFinished
    /\ events[Len(events)].listFailed
    /\ calls.lists >= 2
    /\ IsSuccess(results[calls.file])
    /\ results[calls.file].fileName = LastFile.originalname
    /\ Cardinality(FilesNamed(LastFile.originalname, req.folderId)) >= 2

----------------------------------------------------------------------------
(* Properties of a path resolved twice and a name uploaded twice *)

\* no existence query of a name check has failed so far
NoCheckFailed ==
    /\ ~calls.listFailed
    /\ \A k \in 1..Len(events) : ~events[k].listFailed
    /\ \A u \in 1..Len(ulog) : \A k \in 1..Len(ulog[u].events) : ~ulog[u].events[k].listFailed

\* the files of a folder have pairwise different names
DistinctNames ==
    \A e1, e2 \in {e \in drive : ~e.isFolder} :
        (e1.parent = e2.parent /\ e1.name = e2.name) => e1 = e2

\* both uploads are answered
BothUploaded == Len(ulog) = 1 /\ upc = "done"

\* both uploads are answered with a success outcome
BothStored == BothUploaded /\ IsSuccess(ulog[1].results[1]) /\ IsSuccess(results[1])

----------------------------------------------------------------------------
(* Properties of the transfer *)

\* the entries created since the batch arrived
NewEntries == drive \ UNION UploadDrives

Successes == {k \in 1..Len(results) : IsSuccess(results[k])}

CallIssued == calls' # calls

\* the call of this step is for the file at the loop's index, every earlier
\* file has its outcome and no later file has been touched; a first call for
\* the next file comes after the file before it has ended
C15_CallInOrder ==
    CallIssued =>
        /\ calls'.file = idx
        /\ Len(results) = idx - 1
        /\ Len(events) = idx - 1
        /\ \/ calls'.file = calls.file
           \/ /\ calls'.file = calls.file + 1
              /\ Len(results) = calls.file
              /\ calls'.lists = 1

\* C15: the files of a batch are processed in input order, one at a time: the
\* first remote call for file i+1 is issued only after file i has reached its
\* outcome, and every remote call is for the one file in progress.
C15_Sequential ==
    /\ [](Validated => /\ Len(results) = Len(events)
                       /\ (upc # "done" => idx = Len(results) + 1)
                       /\ calls.file <= idx)
    /\ [][C15_CallInOrder]_vars

\* the third file is in progress after two files have ended
C15_Witness ==
    /\ Validated
    /\ Uploading
    /\ calls.file = 3
    /\ Len(results) = 2

\* the calls made for one file: one session at most, every window further on
\* than the window before it, and nothing sent after an answer other than 308
NoRepeatedCall ==
    /\ calls.tokens <= 1
    /\ calls.inits <= 1
    /\ calls.creates <= 1
    /\ \A i, j \in 1..Len(calls.sends) :
        i < j => /\ calls.sends[i].status = 308
                 /\ calls.sends[i].start < calls.sends[j].start
                 /\ calls.sends[i].end <= calls.sends[j].start

\* the file that has just ended was refused its session, or had a chunk
\* answered with a status that is neither 308 nor 200 nor 201
RefusedOrFatal == LastEnd \in {"initRejected", "chunkFatal"}

\* C16: nothing is retried. After a rejected session initiation no chunk is
\* sent; after a chunk answer that is neither Continue nor Complete no further
\* chunk is sent; in both cases no new session is opened for the file, the
\* file is reported failed and the next call is for the next file. No byte
\* window is sent twice.
C16_NoRetry ==
    /\ [](Validated =>
            /\ NoRepeatedCall
            /\ (FileJustFinished /\ RefusedOrFatal) =>
                /\ IsFailed(results[calls.file])
                /\ calls.inits = 1
                /\ LastEnd = "initRejected" => calls.sends = <<>>
                /\ LastEnd = "chunkFatal" =>
                        calls.sends[Len(calls.sends)].status \notin {308, 200, 201})
    /\ [][(Validated /\ FileJustFinished /\ CallIssued) => calls'.file = calls.file + 1]_vars

\* the third window of a file was answered 500 after two acknowledged windows
C16_Witness ==
    /\ Validated
    /\ FileJustFinished
    /\ LastEnd = "chunkFatal"
    /\ Len(calls.sends) = 3
    /\ calls.sends[3].status = 500
    /\ IsFailed(results[calls.file])

\* the windows sent for the file `calls` describes, S its size
WindowsWellFormed ==
    LET S == req.files[calls.file].size
    IN  \A i \in 1..Len(calls.sends) :
            LET w == calls.sends[i]
                sent == IF i = 1 THEN 0 ELSE calls.sends[i - 1].end
                length == w.end - w.start
            IN  /\ w.start = sent
                /\ length = (IF S - sent < CHUNK_SIZE THEN S - sent ELSE CHUNK_SIZE)
                /\ 1 <= length
                /\ length <= CHUNK_SIZE
                /\ w.total = S
                /\ w.range.total = S
                /\ w.range.first = [unit |-> w.start, rest |-> 0]
                \* one byte before the window's end
                /\ w.range.last = [unit |-> w.end - 1, rest |-> 1023]

\* bytes-sent while a file is in its transfer loop
BytesSentInRange ==
    upc = "chunk" =>
        /\ 0 <= uploadedBytes
        /\ uploadedBytes <= file.size
        /\ (uploadedBytes % CHUNK_SIZE = 0 \/ uploadedBytes = file.size)
        /\ uploadedBytes = (IF calls.sends = <<>> THEN 0
                            ELSE calls.sends[Len(calls.sends)].end)

\* bytes-sent moves only to the end of a window that was answered 308
MovesOnContinueOnly ==
    (upc = "chunk" /\ upc' = "chunk" /\ idx' = idx) =>
        LET w == calls'.sends[Len(calls'.sends)]
        IN  /\ Len(calls'.sends) = Len(calls.sends) + 1
            /\ w.status = 308
            /\ w.start = uploadedBytes
            /\ uploadedBytes' = w.end

\* C17: every window starts at bytes-sent, is min(C, S - bytes-sent) long,
\* which is at least 1 and at most C, and is labelled
\* bytes start-(end-1)/S; on Continue bytes-sent becomes the window's end and
\* nothing else changes it; 0 <= bytes-sent <= S, and bytes-sent is a multiple
\* of C or equals S; the windows are contiguous, do not overlap and start at 0.
C17_Windows ==
    /\ [](Validated => (WindowsWellFormed /\ BytesSentInRange))
    /\ [][Validated => MovesOnContinueOnly]_vars

\* three windows of a file one unit longer than two chunks: the last window
\* is one unit long
C17_Witness ==
    /\ Validated
    /\ Len(calls.sends) = 3
    /\ calls.sends[1].start = 0
    /\ calls.sends[2].start = CHUNK_SIZE
    /\ calls.sends[3].start = 2 * CHUNK_SIZE
    /\ calls.sends[3].end = 2 * CHUNK_SIZE + 1
    /\ calls.sends[2].status = 308

----------------------------------------------------------------------------
(* Properties of concurrent folder path requests *)

\* the folders the handlers in flight have created
CreatedByHandlers == UNION { {f.created[i] : i \in 1..Len(f.created)} : f \in {flows[p] : p \in 1..Len(flows)} }

\* two folders of one name under one parent, created by two handlers
TwinFolders(e1, e2) ==
    /\ e1 # e2
    /\ e1.isFolder
    /\ e2.isFolder
    /\ e1.name = e2.name
    /\ e1.parent = e2.parent
    /\ \E p, q \in 1..Len(flows) :
        /\ p # q
        /\ \E i \in 1..Len(flows[p].created) : flows[p].created[i] = e1.id
        /\ \E j \in 1..Len(flows[q].created) : flows[q].created[j] = e2.id

\* C18: find-then-create takes no lock: a handler that is about to look a
\* segment up or to create it can always do so, whatever the other handlers
\* have found or created meanwhile; a handler creates every segment it found
\* absent, one folder each, and never two folders of one name under one
\* parent by itself. (That two handlers of the same path both find a segment
\* absent and both create it is the state C18_Witness.)
C18_NoLock ==
    \A p \in 1..Len(flows) :
        /\ flows[p].pc = "find" => ENABLED findFolderIn(p)
        /\ flows[p].pc = "create" => ENABLED createFolderIn(p)
        /\ \A i, j \in 1..Len(flows[p].created) :
            \A e1, e2 \in drive :
                (e1.id = flows[p].created[i] /\ e2.id = flows[p].created[j]
                    /\ e1.name = e2.name /\ e1.parent = e2.parent) => i = j

\* no remote call failed, two requests of the same path both found a segment
\* absent, and the store now has two folders of that name under one parent
C18_Witness ==
    /\ failures = 0
    /\ Len(flows) = 2
    /\ flows[1].path = flows[2].path
    /\ flows[1].pc = "done"
    /\ flows[2].pc = "done"
    /\ \E e1, e2 \in drive : TwinFolders(e1, e2)
    /\ flows[1].folderId # flows[2].folderId

\* the name the check falls back to: stem, "_", the time stamp, extension
StampedName(n) ==
    StemExt(n).stem \o <<"_", "1", "7", "0", "0", "0", "0", "0", "0", "0", "0">>
        \o StemExt(n).ext

\* C19: the name check ends after at most 100 existence queries, one for the
\* desired name and one for each counter 1..99, every step of the check being
\* one more query; when the desired name and all 99 numbered names are taken
\* it returns stem_<time stamp>ext after exactly 100 queries, without a query
\* for that name, also when the folder has an entry of that name.
C19_BoundedNameCheck ==
    /\ [](Validated =>
            /\ calls.lists <= 100
            /\ upc = "listK" => (1 <= counter /\ counter <= 99 /\ calls.lists = counter)
            /\ (NameCheckDone /\ ~calls.listFailed
                    /\ FreeCandidates(file.originalname, req.folderId) = {}) =>
                /\ calls.lists = 100
                /\ finalFileName = StampedName(file.originalname))
    /\ [][(Validated /\ upc = "listK") => calls'.lists = calls.lists + 1]_vars

\* every name was taken, the time-stamped one too: the check returned it
\* after its 100 queries
C19_Witness ==
    /\ NameCheckDone
    /\ ~calls.listFailed
    /\ calls.lists = 100
    /\ finalFileName = StampedName(N1)
    /\ StampedName(N1) \in NamesIn(req.folderId)

----------------------------------------------------------------------------
(* Properties of a failed folder path request *)

\* the request failed because a folder creation failed; the creation that
\* failed is the last one it issued
FailedAtCreate(entry) ==
    /\ entry.path # <<>>
    /\ ~entry.ok
    /\ entry.calls.findFailed = <<>>
    /\ entry.calls.creates # <<>>

FailedSegment(entry) == entry.calls.creates[Len(entry.calls.creates)]

\* no two folders of the store have the same name under the same parent
Unambiguous(store) ==
    \A e1, e2 \in {e \in store : e.isFolder} :
        (e1.name = e2.name /\ e1.parent = e2.parent) => e1 = e2

\* the folders the failed request created are kept, and the next request of
\* the same path, when it meets no failure, goes through them and creates the
\* folders from the failed segment on, no other
KeptAndReused(k) ==
    LET entry == rlog[k]
        j == FailedSegment(entry)
        n == Len(entry.path)
    IN  /\ \A i \in 1..Len(entry.calls.created) : entry.calls.created[i] \in drive
        /\ Len(entry.calls.created) = Len(entry.calls.creates) - 1
        /\ (/\ k < Len(rlog)
            /\ rlog[k + 1].path = entry.path
            /\ NoRemoteFailure(rlog[k + 1])) =>
                LET next == rlog[k + 1].calls
                IN  /\ next.creates = [i \in 1..(n - j + 1) |-> j + i - 1]
                    /\ Len(next.found) = j - 1
                    /\ \A i \in 1..Len(entry.calls.created) :
                        \E m \in 1..Len(next.found) :
                            next.found[m] = entry.calls.created[i].id

----------------------------------------------------------------------------
(* Properties of the resolved name during the transfer *)

\* the calls of a transfer: token, session, one-shot creation, chunks
TransferCalls == calls.tokens + calls.inits + calls.creates + Len(calls.sends)

\* the name is kept and no existence query is issued while the file's
\* transfer goes on
NameKept ==
    (Uploading /\ Uploading' /\ idx' = idx) =>
        /\ finalFileName' = finalFileName
        /\ calls'.lists = calls.lists

\* the session is opened under the name the check returned
SessionUnderName ==
    (Uploading /\ sessions' # sessions) =>
        /\ Len(sessions') = Len(sessions) + 1
        /\ sessions'[Len(sessions')].name = finalFileName
        /\ sessions'[Len(sessions')].parent = req.folderId

\* the entry is created and reported under the name the check returned
StoredUnderName ==
    (Uploading /\ Len(results') = Len(results) + 1 /\ IsSuccess(results'[idx])) =>
        /\ results'[idx].fileName = finalFileName
        /\ \E e \in drive' \ drive :
            /\ e.name = finalFileName
            /\ e.id = results'[idx].fileId
            /\ e.parent = req.folderId
        /\ Cardinality(drive' \ drive) = 1

\* C21: for each file the name check is run once and has returned before the
\* file's session initiation or one-shot creation is issued; the name sent
\* to the remote store for the new entry and the name reported in a success
\* outcome are the name the check returned, and the name is not computed
\* again between chunks.
C21_NameComputedOnce ==
    /\ [](Validated =>
            /\ upc = "listK" => TransferCalls = 0
            /\ Uploading => calls.lists >= 1
            /\ upc = "chunk" => sessions[uploadUrl].name = finalFileName)
    /\ [][Validated => (NameKept /\ SessionUnderName /\ StoredUnderName)]_vars

\* a renamed file between its chunks: two windows sent, the session and the
\* handler hold the numbered name
C21_Witness ==
    /\ Validated
    /\ upc = "chunk"
    /\ Len(calls.sends) = 2
    /\ finalFileName # file.originalname
    /\ sessions[uploadUrl].name = finalFileName
    /\ calls.lists = 2

----------------------------------------------------------------------------
(* Properties of concurrent upload requests *)

\* the size of the file a transfer <<request, index>> uploads
SizeOfTransfer(t) == uploads[t[1]].files[t[2]].size

\* every chunk a session received came from the transfer that opened it, is
\* labelled with that file's size and continues where the chunk before ended
SessionPrivate(s) ==
    /\ s.total = SizeOfTransfer(s.owner)
    /\ \A i \in 1..Len(s.received) :
        LET c == s.received[i]
        IN  /\ c.from = s.owner
            /\ c.range.total = SizeOfTransfer(s.owner)
            /\ c.start = (IF i = 1 THEN 0 ELSE s.received[i - 1].end)
            /\ c.start < c.end
            /\ c.end <= SizeOfTransfer(s.owner)

\* a transfer in its chunk loop sends to the session it opened, and its
\* bytes-sent is 0 or the end of the last chunk that session received
TransferOwnsSession(p) ==
    uploads[p].pc = "chunk" =>
        LET u == uploads[p]
            s == sessions[u.uploadUrl]
        IN  /\ s.owner = <<p, u.idx>>
            /\ u.uploadedBytes =
                    (IF s.received = <<>> THEN 0 ELSE s.received[Len(s.received)].end)

\* a step changes the locals of one request at most
OneRequestPerStep ==
    \A p, q \in 1..Len(uploads) :
        (p # q /\ uploads'[p] # uploads[p]) =>
            /\ uploads'[q] = uploads[q]
            /\ uploads'[q].uploadedBytes = uploads[q].uploadedBytes

\* C22: with several batch requests in flight each transfer's session is its
\* own: bytes-sent starts at 0 for every file, every chunk sent to a session
\* endpoint carries bytes and the total size of the file the session was
\* opened for, no two transfers share a session, and a step of one request
\* never changes the bytes-sent of another, under every interleaving.
C22_PrivateSessions ==
    /\ [](/\ \A k \in 1..Len(sessions) : SessionPrivate(sessions[k])
          /\ \A j, k \in 1..Len(sessions) :
                sessions[j].owner = sessions[k].owner => j = k
          /\ \A p \in 1..Len(uploads) : TransferOwnsSession(p))
    /\ [][OneRequestPerStep]_vars

\* two requests are in their chunk loops at once on sessions of different
\* sizes, the session opened first has an acknowledged chunk and the other
\* transfer has sent nothing yet
C22_Witness ==
    /\ Len(uploads) = 2
    /\ uploads[1].pc = "chunk"
    /\ uploads[2].pc = "chunk"
    /\ uploads[1].uploadUrl # uploads[2].uploadUrl
    /\ \E p, q \in 1..2 :
        /\ uploads[p].uploadedBytes = CHUNK_SIZE
        /\ uploads[q].uploadedBytes = 0
        /\ uploads[p].uploadUrl < uploads[q].uploadUrl
    /\ sessions[uploads[1].uploadUrl].total # sessions[uploads[2].uploadUrl].total
    /\ failures = 0

\* C23: every outcome appended to the outcome list of a batch, failed as well
\* as successful, carries the name the name check returned for the file and
\* the file's byte size; a failed outcome carries an error description and no
\* remote identifier, a successful one carries the remote identifier.
OutcomeAppended == Uploading /\ Len(results') = Len(results) + 1

CarriesNameAndSize(o, name, size) ==
    /\ ~IsUndefined(o)
    /\ o.fileName = name
    /\ "size" \in DOMAIN o
    /\ o.size = size
    /\ IF o.success
       THEN "fileId" \in DOMAIN o
       ELSE "error" \in DOMAIN o /\ "fileId" \notin DOMAIN o

C23_OutcomesCarryNameAndSize ==
    [][OutcomeAppended =>
        CarriesNameAndSize(results'[idx], finalFileName, req.files[idx].size)]_vars

----------------------------------------------------------------------------
(* Properties of the names within one batch *)

\* no existence query of the batch's name checks has failed so far
BatchChecksOk ==
    /\ ~calls.listFailed
    /\ \A k \in 1..Len(events) : ~events[k].listFailed

\* the names taken in the target folder when file j of the batch is checked:
\* those the folder held when the batch arrived and those of the files of the
\* batch stored before j
TakenBefore(j) ==
    {e.name : e \in {f \in drive \ NewEntries : f.parent = req.folderId}}
        \cup {results[i].fileName : i \in {s \in Successes : s < j}}

\* C24: in a single batch, with no other caller, no failed existence query and
\* fewer than 100 colliding names, the files that end with a success outcome
\* have pairwise different resolved names, also when files of the batch share
\* an original name: each is stored under the first of name, stem(1)ext, ...
\* that neither the folder nor an earlier file of the batch has taken, so a
\* later file of the same original name gets the next free counter name.
C24_DistinctNamesInBatch ==
    (Validated /\ BatchChecksOk) =>
        /\ \A i, j \in Successes : i # j => results[i].fileName # results[j].fileName
        /\ \A j \in Successes :
            LET n == req.files[j].originalname
            IN  \E k \in 0..99 :
                    /\ results[j].fileName = Candidate(n, k)
                    /\ Candidate(n, k) \notin TakenBefore(j)
                    /\ \A m \in 0..(k - 1) : Candidate(n, m) \in TakenBefore(j)
                    /\ (\E i \in Successes : i < j /\ req.files[i].originalname = n) => k >= 1
                    /\ \E e \in NewEntries : /\ e.id = results[j].fileId
                                             /\ e.name = Candidate(n, k)
                                             /\ e.parent = req.folderId

\* two files of the same original name, a one-shot and a chunked one, stored
\* in a folder that already held that name: r(1).p, then r(2).p
C24_Witness ==
    /\ Validated
    /\ upc = "done"
    /\ BatchChecksOk
    /\ Len(results) = 2
    /\ req.files[1].originalname = N1
    /\ req.files[2].originalname = N1
    /\ req.files[1].size # req.files[2].size
    /\ Successes = {1, 2}
    /\ results[1].fileName = <<"r", "(", "1", ")", ".", "p">>
    /\ results[2].fileName = <<"r", "(", "2", ")", ".", "p">>

----------------------------------------------------------------------------
(* Properties of the older upload handler *)

\* the entries of the target folder that have the name of file i
OldNamed(i) ==
    {e \in drive : e.name = old.files[i].originalname /\ e.parent = old.folderId}

\* the entries created since the batch arrived
OldNewEntries == drive \ UNION OldDrives

OldRunning == old.pc \in {"running", "done"} /\ old.response.status # 400

\* file i's existence check is answered in this step
CheckAnswered(i) ==
    /\ old.pc = "running"
    /\ i \in 1..Len(old.tasks)
    /\ old.tasks[i].pc = "list"
    /\ old'.tasks[i].pc # "list"

\* the check of a file creates nothing; when the folder has an entry of the
\* name, the file's upload ends there, with the identifier of such an entry
\* unless the check itself failed; files.create is issued only when the
\* folder has no entry of the name
CheckIsFinalWhenFound ==
    \A i \in 1..MaxFiles :
        CheckAnswered(i) =>
            /\ drive' = drive
            /\ OldNamed(i) # {} =>
                /\ old'.tasks[i].pc = "done"
                /\ old'.tasks[i].created = {}
                /\ LET o == old'.tasks[i].outcome
                   IN  \/ ~o.success /\ old'.tasks[i].found = {}
                       \/ /\ o.success
                          /\ o.fileName = old.files[i].originalname
                          /\ o.fileId \in {e.id : e \in OldNamed(i)}
                          /\ old'.tasks[i].found = OldNamed(i)
            /\ old'.tasks[i].pc = "create" => OldNamed(i) = {}

\* the store changes only by the files.create of a file whose check found no
\* entry, and by exactly one entry of that file's name in the target folder
CreatedOnlyWhenNotFound ==
    drive' # drive =>
        \E i \in 1..Len(old.tasks) :
            /\ old.tasks[i].pc = "create"
            /\ old.tasks[i].found = {}
            /\ old'.tasks[i].pc = "done"
            /\ old'.tasks[i].outcome.success
            /\ old'.tasks[i].created = {old'.tasks[i].outcome.fileId}
            /\ \A e \in drive : e.id # old'.tasks[i].outcome.fileId
            /\ drive' = drive \cup {FileEntry(old'.tasks[i].outcome.fileId,
                                              old.files[i].originalname, old.folderId)}

\* a file found by its check has created nothing and is reported under the
\* identifier of an entry that is still there; every new entry of the store
\* belongs to a file whose check found none
FoundMeansUntouched ==
    OldRunning =>
        /\ \A i \in 1..Len(old.tasks) :
            /\ old.tasks[i].found # {} =>
                /\ old.tasks[i].pc = "done"
                /\ old.tasks[i].created = {}
                /\ old.tasks[i].outcome.success
                /\ \E e \in old.tasks[i].found \cap drive : e.id = old.tasks[i].outcome.fileId
            /\ old.tasks[i].created # {} => old.tasks[i].found = {}
        /\ {e.id : e \in OldNewEntries} =
                UNION {old.tasks[i].created : i \in 1..Len(old.tasks)}
        /\ (\A i \in 1..Len(old.tasks) : old.tasks[i].created = {}) => drive \in OldDrives

C25_WitnessWithinBatch ==
    /\ old.pc = "done"
    /\ Len(old.tasks) = 2
    /\ old.files[1] = old.files[2]
    /\ old.tasks[1].created # {}
    /\ old.tasks[2].found # {}
    /\ old.tasks[2].outcome.fileId \in old.tasks[1].created
    /\ Cardinality(drive) = 1

====
